---- MODULE Spec2Model ----
(***************************************************************************)
(* Text-to-speech orchestration of the library site: the speech session    *)
(* controller (src/scripts/tts-manager.js) driving the host speech engine, *)
(* and the provider selectors of the manager variants.                     *)
(*                                                                         *)
(* Every object of the program is one record-valued variable whose fields  *)
(* carry the names of the object's fields in the source.                   *)
(***************************************************************************)
EXTENDS Integers, Sequences, FiniteSets, TLC

VARIABLES
  tts,        \* the UniversalTTSManager instance (scripts/tts-manager.js)
  synth,      \* the host's global speechSynthesis engine
  utter,      \* the SpeechSynthesisUtterance objects still referenced, by id
  timers,     \* the interval timers that are armed (handles)
  microtasks, \* speak() calls suspended at `await this.getBestVoice()`
  obs,        \* what the last step showed the caller: callbacks run, error thrown
  calls,      \* the calls of the caller-facing API made so far
  mgr,        \* a provider-selecting manager (CloudTtsManager, TtsManager,
              \* TtsManagerFixed)
  run,        \* the initialize() call of mgr: its position and what it did
  cloud,      \* the CloudTtsManager instance of unnamed/part_001
  pub,        \* the UniversalTtsManager instance (public/UniversalTtsManager.js)
  pinit,      \* the initialize() call of pub: its position
  page,       \* the page around pub: platform, script tags, the enable modal
  ld,         \* the initialize() call of tts with its loadVoices(): position,
              \* attempts made, timers armed, what it returned
  fx,         \* the TtsManagerFixed instance (components/TtsManagerFixed.js)
  calc,       \* the last utterance configured or voice list ranked: the
              \* function, what it was given, what it produced
  book,       \* the AudiobookMode instance of the page (scripts/audiobook-mode.js)
  storage,    \* localStorage: the item stored under each key
  viewer,     \* the script state of the PDF viewer (components/PdfViewer.astro)
  comp,       \* the CloudTtsManager instance of components/CloudTtsManager.js
  audio,      \* the Audio elements created, by id
  sm,         \* the SimpleTtsManager instance (public/SimpleTtsManager.js)
  enh,        \* the TtsManager instance of unnamed/part_006
  pv          \* the initialization of the PDF viewer's script

sessionVars == <<tts, synth, utter, timers, microtasks, obs, calls>>
selectVars == <<mgr, run>>

pubVars == <<pub, pinit, page>>

\* the objects of the later sections
lastVars == <<sm, enh, pv>>
moreVars == <<storage, viewer, comp, audio, lastVars>>
laterVars == <<ld, fx, calc, moreVars>>

vars == <<sessionVars, selectVars, cloud, pubVars, laterVars, book>>

\* what the steps of one object leave alone: the other objects
offSession == <<selectVars, cloud, pubVars, laterVars>>
\* (the steps of the speech session leave book to the AudiobookMode that
\* listens to them)
offSelect == <<sessionVars, cloud, pubVars, laterVars, book>>
offCloud == <<tts, timers, selectVars, pubVars, laterVars, book>>
offPub == <<tts, timers, selectVars, cloud, laterVars, book>>
offLoad == <<utter, timers, microtasks, selectVars, cloud, pubVars, fx, calc,
             moreVars, book>>
offFixed == <<tts, timers, microtasks, selectVars, cloud, pubVars, ld, calc,
              moreVars, book>>
offCalc == <<sessionVars, selectVars, cloud, pubVars, ld, fx, moreVars, book>>
offProgress == <<sessionVars, selectVars, cloud, pubVars, ld, fx, calc, comp,
                 audio, lastVars>>
offComp == <<tts, timers, microtasks, selectVars, cloud, pubVars, ld, fx, calc,
             storage, viewer, book, lastVars>>
earlierVars == <<tts, timers, microtasks, selectVars, cloud, pubVars, ld, fx,
                 calc, storage, viewer, comp, audio, book>>
offSimple == <<earlierVars, enh, pv>>
offEnhanced == <<earlierVars, sm, pv>>
offScript == <<earlierVars, synth, utter, obs, calls, sm, enh>>

-----------------------------------------------------------------------------
(* Bounds of the model *)

\* calls of the caller-facing API (speak, pause, resume, stop) per run
MaxCalls == 3

-----------------------------------------------------------------------------
(* Texts: a text is the sequence of its characters *)

TextHello == <<"H", "e", "l", "l", "o", " ", "w", "o", "r", "l", "d">>
TextAB    == <<"a", " ", "b">>
TextBlank == <<" ">>

Texts == {TextHello, TextAB, TextBlank}

\* text.trim().length === 0, and !text for the empty string
IsBlank(text) == \A i \in 1..Len(text) : text[i] = " "

RECURSIVE SplitFrom(_, _, _)
SplitFrom(text, i, cur) ==
  IF i > Len(text) THEN <<cur>>
  ELSE IF text[i] = " " THEN <<cur>> \o SplitFrom(text, i + 1, <<>>)
  ELSE SplitFrom(text, i + 1, Append(cur, text[i]))

\* text.split(' ')
Split(text) == SplitFrom(text, 1, <<>>)

-----------------------------------------------------------------------------
(* The host speech engine *)

\* what the host reports to an utterance that cancel() removed: an error event
\* ('interrupted' / 'canceled'), an end event, or nothing at all
CancelNotify == {"error", "end", "none"}

\* the cancel notifications owed to the utterances of queue q (the dummy
\* utterance has no handlers, so none is owed to it)
RECURSIVE CancelEvents(_, _, _)
CancelEvents(q, speaking, k) ==
  IF q = <<>> THEN <<>>
  ELSE LET u == Head(q)
           ev == IF u = 0 THEN <<>>
                 ELSE IF speaking
                   THEN (IF k = "none" THEN <<>> ELSE << <<u, k>> >>)
                   ELSE (IF k = "error" THEN << <<u, "error">> >> ELSE <<>>)
       IN  ev \o CancelEvents(Tail(q), FALSE, k)

\* speechSynthesis.cancel(): the queue is emptied, the paused state is kept
SynthCancel(s, k) ==
  [s EXCEPT !.queue = <<>>,
            !.speaking = FALSE,
            !.events = s.events \o CancelEvents(s.queue, s.speaking, k)]

\* speechSynthesis.speak(u)
SynthSpeak(s, u) == [s EXCEPT !.queue = Append(s.queue, u)]

\* the members of a sequence
Range(q) == {q[i] : i \in 1..Len(q)}

-----------------------------------------------------------------------------
(* UniversalTTSManager (scripts/tts-manager.js) *)

NoTimer == 0
NoUtterance == 0
NoCallback == 0
\* the empty utterance loadVoices() speaks to coax the voice list
DummyUtterance == 0

\* the utterances that have been requested and have not finished
Live(u) == utter[u].state \in {"created", "queued", "speaking"}

\* an utterance object is referenced by the engine (queue, owed events), by the
\* closures of an armed timer or a suspended speak(), or by the manager
Referenced(u) ==
  \/ u \in Range(synth.queue)
  \/ \E i \in 1..Len(synth.events) : synth.events[i][1] = u
  \/ u \in timers
  \/ u \in Range(microtasks)
  \/ u \in {tts.currentUtterance, tts.onWordStart, tts.wordTimer}

\* the caller still awaits the promise of speak() for utterance u
Pending(u) == utter[u].promise = "pending"

\* the utterance objects a step starts from: those no longer referenced at the
\* end of the step before have been collected
Kept ==
  [u \in {v \in DOMAIN utter : Live(v) \/ Referenced(v) \/ Pending(v)} |->
     utter[u]]

\* the id of the next utterance object
NewId == CHOOSE u \in 1..(Cardinality(DOMAIN Kept) + 1) : u \notin DOMAIN Kept

\* the utterance objects after cancel() has removed queue q from the engine
Cancelled(ut, q) ==
  [i \in DOMAIN ut |->
     IF i \in Range(q) THEN [ut[i] EXCEPT !.state = "cancelled"] ELSE ut[i]]

\* what a step shows the caller: the callbacks it ran, in order, and the error
\* its call threw
Out(emitted, thrown) == [emitted |-> emitted, thrown |-> thrown]
Quiet == Out(<<>>, "none")

\* this.onStatusChange?.({ isPlaying, isPaused })
StatusChange(p, q) == <<"onStatusChange", p, q>>

\* the body of stop(): the manager, the engine, the timers and the utterances
\* after it, and the callbacks it ran
StopBody(k) ==
  IF tts.isPlaying
    THEN [tts    |-> [tts EXCEPT !.isPlaying = FALSE,
                                 !.isPaused = FALSE,
                                 !.currentWordIndex = 0,
                                 !.wordTimer = NoTimer,
                                 !.currentUtterance = NoUtterance],
          synth  |-> SynthCancel(synth, k),
          timers |-> timers \ {tts.wordTimer},
          utter  |-> Cancelled(Kept, synth.queue),
          emitted |-> <<StatusChange(FALSE, FALSE)>>]
    ELSE [tts |-> tts, synth |-> synth, timers |-> timers, utter |-> Kept,
          emitted |-> <<>>]

-----------------------------------------------------------------------------
(* AudiobookMode (scripts/audiobook-mode.js) listening to its ttsManager *)

\* pages of a document
MaxPages == 3

\* this.settings of the constructor; numbers in hundredths
DefaultSettings ==
  [speed |-> 100, pitch |-> 100, volume |-> 85, autoAdvance |-> TRUE,
   voice |-> "null"]

\* the constructor: new AudiobookMode(pdfUrl, pdfContainer); attached: the
\* callbacks of the ttsManager are set, timeouts: the setTimeout callbacks
\* that will call startReading(), returned: what the last loadProgress() of
\* the instance returned (<<>>: null)
NewBook(pdfUrl) ==
  [attached |-> FALSE, pdfUrl |-> pdfUrl, currentPage |-> 1, totalPages |-> 0,
   isPlaying |-> FALSE, settings |-> DefaultSettings, timeouts |-> 0,
   returned |-> <<>>]

\* nextPage() on instance b
NextPage(b) ==
  IF b.currentPage < b.totalPages
    THEN [b EXCEPT !.currentPage = @ + 1,
                   !.timeouts = IF b.isPlaying /\ b.settings.autoAdvance
                                  THEN @ + 1 ELSE @]
    ELSE b

\* handleTTSEnd() on instance b
HandleTTSEnd(b) ==
  LET ended == [b EXCEPT !.isPlaying = FALSE]
  IN  IF ended.settings.autoAdvance /\ ended.currentPage < ended.totalPages
        THEN NextPage(ended)
        ELSE ended

\* what a step of the ttsManager does to the AudiobookMode b that owns it:
\* onEnd runs handleTTSEnd(); the startReading() that awaits the promise of
\* speak() goes on when the promise settles or the call throws
BookFollows(b) ==
  book' =
    IF ~b.attached THEN b
    ELSE IF \E i \in 1..Len(obs'.emitted) : obs'.emitted[i][1] = "onEnd"
      THEN HandleTTSEnd(b)
    ELSE IF \E u \in DOMAIN utter \cap DOMAIN utter' :
              utter[u].promise = "pending" /\ utter'[u].promise = "resolved"
      THEN [b EXCEPT !.isPlaying = TRUE]
    ELSE IF \/ obs'.thrown # "none"
            \/ \E u \in DOMAIN utter \cap DOMAIN utter' :
                 utter[u].promise = "pending" /\ utter'[u].promise = "rejected"
      THEN [b EXCEPT !.isPlaying = FALSE]
    ELSE b

-----------------------------------------------------------------------------
(* UniversalTTSManager: its operations *)

SessionInit ==
  /\ tts = [isInitialized |-> FALSE, currentUtterance |-> NoUtterance,
            isPlaying |-> FALSE, isPaused |-> FALSE,
            availableVoices |-> 0, wordTimer |-> NoTimer,
            currentWords |-> <<>>, currentWordIndex |-> 0,
            onWordStart |-> NoCallback]
  /\ synth \in {[exists |-> e, voices |-> v, responsive |-> r,
                 queue |-> <<>>, speaking |-> FALSE, paused |-> FALSE,
                 events |-> <<>>] :
                 e \in BOOLEAN, v \in {0, 1}, r \in BOOLEAN}
  /\ utter = <<>>
  /\ timers = {}
  /\ microtasks = <<>>
  /\ obs = Quiet
  /\ calls = 0

\* initialize(), with loadVoices() run to its resolution: `lazy` is the host
\* filling its voice list only after the first read
InitializeFrom(b) ==
  /\ UNCHANGED offSession
  /\ ~tts.isInitialized
  /\ microtasks = <<>>
  /\ IF ~synth.exists
       THEN UNCHANGED <<tts, synth>>
       ELSE \E lazy \in BOOLEAN :
              /\ tts' = [tts EXCEPT !.isInitialized = TRUE,
                                    !.availableVoices = synth.voices]
              /\ synth' = IF synth.voices = 0 \/ lazy
                            THEN SynthSpeak(synth, DummyUtterance)
                            ELSE synth
  /\ obs' = Quiet
  /\ utter' = Kept
  /\ UNCHANGED <<timers, microtasks, calls>>
  /\ BookFollows(b)

\* initialize() of a manager no AudiobookMode calls
UInitialize == InitializeFrom(book)

\* speakWithWordCallback(text, onWordStart, options) up to its
\* `await this.getBestVoice()`; withCb: the caller passed a callback
SpeakWithWordCallbackFrom(text, withCb, k, b) ==
  /\ UNCHANGED offSession
  /\ calls < MaxCalls
  /\ calls' = calls + 1
  /\ IF ~tts.isInitialized
       THEN /\ obs' = Out(<<>>, "TTS not initialized")
            /\ utter' = Kept
            /\ UNCHANGED <<tts, synth, timers, microtasks>>
     ELSE IF IsBlank(text)
       THEN /\ obs' = Out(<<>>, "No text provided for speech")
            /\ utter' = Kept
            /\ UNCHANGED <<tts, synth, timers, microtasks>>
     ELSE LET s == StopBody(k)
              u == NewId
          IN  /\ tts' = [s.tts EXCEPT
                           !.currentWords = Split(text),
                           !.currentWordIndex = 0,
                           !.onWordStart = IF withCb THEN u ELSE NoCallback]
              /\ synth' = s.synth
              /\ timers' = s.timers
              /\ utter' = [i \in DOMAIN s.utter \cup {u} |->
                   IF i = u
                     THEN [text |-> text, cb |-> withCb, state |-> "created",
                           promise |-> "pending", stopped |-> FALSE,
                           superseded |-> FALSE, paused |-> FALSE,
                           words |-> 0, inOrder |-> TRUE]
                   ELSE IF Live(i)
                     THEN [s.utter[i] EXCEPT !.superseded = TRUE]
                   ELSE s.utter[i]]
              /\ microtasks' = Append(microtasks, u)
              /\ obs' = Out(s.emitted, "none")
  /\ BookFollows(b)

\* speakWithWordCallback(text, onWordStart, options)
USpeakWithWordCallback(text, withCb, k) ==
  SpeakWithWordCallbackFrom(text, withCb, k, book)

\* speak(text, options)
USpeak(text, k) == USpeakWithWordCallback(text, FALSE, k)

\* speakWithWordCallback after the await: the promise executor
USpeakResume ==
  /\ UNCHANGED offSession
  /\ microtasks # <<>>
  /\ LET u == Head(microtasks)
     IN  /\ microtasks' = Tail(microtasks)
         /\ tts' = [tts EXCEPT !.currentUtterance = u]
         /\ synth' = SynthSpeak(synth, u)
         /\ utter' = [Kept EXCEPT ![u].state = "queued"]
  /\ obs' = Quiet
  /\ UNCHANGED <<timers, calls>>
  /\ BookFollows(book)

\* utterance.onstart
OnStart(u) ==
  /\ tts' = [tts EXCEPT !.isPlaying = TRUE, !.isPaused = FALSE,
                        !.wordTimer = u]
  /\ timers' = timers \cup {u}
  /\ utter' = [Kept EXCEPT
                 ![u].state = "speaking",
                 ![u].promise = IF @ = "pending" THEN "resolved" ELSE @]
  /\ obs' = Out(<<StatusChange(TRUE, FALSE)>>, "none")

\* utterance.onend
OnEnd(u, state) ==
  /\ tts' = [tts EXCEPT !.isPlaying = FALSE, !.isPaused = FALSE,
                        !.currentWordIndex = 0, !.wordTimer = NoTimer]
  /\ timers' = timers \ {tts.wordTimer}
  /\ utter' = [Kept EXCEPT ![u].state = state]
  /\ obs' = Out(<<StatusChange(FALSE, FALSE), <<"onEnd", u>> >>, "none")

\* utterance.onerror
OnError(u, state) ==
  /\ tts' = [tts EXCEPT !.isPlaying = FALSE, !.isPaused = FALSE,
                        !.wordTimer = NoTimer]
  /\ timers' = timers \ {tts.wordTimer}
  /\ utter' = [Kept EXCEPT
                 ![u].state = state,
                 ![u].promise = IF @ = "pending" THEN "rejected" ELSE @]
  /\ obs' = Out(<<StatusChange(FALSE, FALSE)>>, "none")

\* the interval callback armed by onstart of utterance h
WordTimerTick(h) ==
  /\ UNCHANGED offSession
  /\ h \in timers
  /\ microtasks = <<>>
  /\ IF tts.currentWordIndex < Len(tts.currentWords)
        /\ tts.onWordStart # NoCallback
       THEN LET word == tts.currentWords[tts.currentWordIndex + 1]
                own == Split(utter[h].text)
            IN
            /\ obs' = Out(<< <<"onWordStart", h, word, tts.currentWordIndex>> >>,
                          "none")
            /\ tts' = [tts EXCEPT !.currentWordIndex = @ + 1]
            /\ utter' = [Kept EXCEPT
                 ![h].words = @ + 1,
                 ![h].inOrder = /\ @
                                /\ tts.currentWordIndex = utter[h].words
                                /\ tts.currentWordIndex < Len(own)
                                /\ word = own[tts.currentWordIndex + 1]]
            /\ UNCHANGED timers
       ELSE /\ timers' = timers \ {tts.wordTimer}
            /\ obs' = Quiet
            /\ utter' = Kept
            /\ UNCHANGED tts
  /\ UNCHANGED <<synth, microtasks, calls>>
  /\ BookFollows(book)

\* pause()
UPause ==
  /\ UNCHANGED offSession
  /\ calls < MaxCalls
  /\ calls' = calls + 1
  /\ IF tts.isPlaying /\ ~tts.isPaused
       THEN /\ synth' = [synth EXCEPT !.paused = TRUE]
            /\ tts' = [tts EXCEPT !.isPaused = TRUE, !.wordTimer = NoTimer]
            /\ timers' = timers \ {tts.wordTimer}
            /\ obs' = Out(<<StatusChange(TRUE, TRUE)>>, "none")
       ELSE /\ obs' = Quiet
            /\ UNCHANGED <<tts, synth, timers>>
  /\ utter' = [i \in DOMAIN Kept |->
                 IF Live(i) THEN [utter[i] EXCEPT !.paused = TRUE] ELSE utter[i]]
  /\ UNCHANGED microtasks
  /\ BookFollows(book)

\* resume()
UResume ==
  /\ UNCHANGED offSession
  /\ calls < MaxCalls
  /\ calls' = calls + 1
  /\ IF tts.isPaused
       THEN /\ synth' = [synth EXCEPT !.paused = FALSE]
            /\ tts' = [tts EXCEPT !.isPaused = FALSE]
            /\ obs' = Out(<<StatusChange(TRUE, FALSE)>>, "none")
       ELSE /\ obs' = Quiet
            /\ UNCHANGED <<tts, synth>>
  /\ utter' = Kept
  /\ UNCHANGED <<timers, microtasks>>
  /\ BookFollows(book)

\* stop()
StopFrom(k, b) ==
  /\ UNCHANGED offSession
  /\ calls < MaxCalls
  /\ calls' = calls + 1
  /\ LET s == StopBody(k)
     IN  /\ tts' = s.tts
         /\ synth' = s.synth
         /\ timers' = s.timers
         /\ utter' = [i \in DOMAIN s.utter |->
                        IF Live(i) THEN [s.utter[i] EXCEPT !.stopped = TRUE]
                                   ELSE s.utter[i]]
         /\ obs' = Out(s.emitted, "none")
  /\ UNCHANGED microtasks
  /\ BookFollows(b)

\* stop()
UStop(k) == StopFrom(k, book)

(* The engine's events. Each is a task of the event loop: it runs only when no
   continuation of a speak() call is waiting. Notifications of a cancel() are
   delivered before the engine turns to the next utterance. *)

\* the event owed to a cancelled utterance reaches its handler
EngineCancelEvent ==
  /\ UNCHANGED offSession
  /\ microtasks = <<>>
  /\ synth.responsive
  /\ synth.events # <<>>
  /\ LET u == Head(synth.events)[1]
         kind == Head(synth.events)[2]
     IN  /\ synth' = [synth EXCEPT !.events = Tail(@)]
         /\ IF kind = "error" THEN OnError(u, utter[u].state)
                              ELSE OnEnd(u, utter[u].state)
  /\ UNCHANGED <<microtasks, calls>>
  /\ BookFollows(book)

\* the engine begins to speak the head of its queue
EngineStart ==
  /\ UNCHANGED offSession
  /\ microtasks = <<>>
  /\ synth.responsive
  /\ synth.events = <<>>
  /\ synth.queue # <<>>
  /\ ~synth.speaking
  /\ ~synth.paused
  /\ synth' = [synth EXCEPT !.speaking = TRUE]
  /\ IF Head(synth.queue) = DummyUtterance
       THEN obs' = Quiet /\ utter' = Kept /\ UNCHANGED <<tts, timers>>
       ELSE OnStart(Head(synth.queue))
  /\ UNCHANGED <<microtasks, calls>>
  /\ BookFollows(book)

\* the engine finishes the utterance it is speaking
EngineEnd ==
  /\ UNCHANGED offSession
  /\ microtasks = <<>>
  /\ synth.responsive
  /\ synth.events = <<>>
  /\ synth.queue # <<>>
  /\ synth.speaking
  /\ ~synth.paused
  /\ synth' = [synth EXCEPT !.queue = Tail(@), !.speaking = FALSE]
  /\ IF Head(synth.queue) = DummyUtterance
       THEN obs' = Quiet /\ utter' = Kept /\ UNCHANGED <<tts, timers>>
       ELSE OnEnd(Head(synth.queue), "ended")
  /\ UNCHANGED <<microtasks, calls>>
  /\ BookFollows(book)

\* the engine fails on the head of its queue (synthesis-failed, network, ...)
EngineError ==
  /\ UNCHANGED offSession
  /\ microtasks = <<>>
  /\ synth.responsive
  /\ synth.events = <<>>
  /\ synth.queue # <<>>
  /\ Head(synth.queue) # DummyUtterance
  /\ synth' = [synth EXCEPT !.queue = Tail(@), !.speaking = FALSE]
  /\ OnError(Head(synth.queue), "errored")
  /\ UNCHANGED <<microtasks, calls>>
  /\ BookFollows(book)

-----------------------------------------------------------------------------
(* AudiobookMode (scripts/audiobook-mode.js): its operations, each with the
   call of the ttsManager it makes *)

\* getPageText(pageNumber): the pages of the document have text
PageText(pageNumber) == IF pageNumber % 2 = 1 THEN TextHello ELSE TextAB

\* a step of the AudiobookMode alone: the ttsManager and the engine stay
BookOnly(b) ==
  /\ UNCHANGED <<sessionVars, offSession>>
  /\ book' = b

\* initialize(); extracted: the text extractor initialises and extracts the
\* MaxPages pages of the document, else initialize() throws
AInitialize(extracted) ==
  /\ ~book.attached
  /\ InitializeFrom(IF extracted
                      THEN [book EXCEPT !.attached = TRUE,
                                        !.totalPages = MaxPages]
                      ELSE book)

\* startReading() on instance b, from its test of this.currentPage on, up to
\* the await of this.ttsManager.speak(...)
StartReadingFrom(b, k) ==
  IF b.currentPage > b.totalPages
    THEN BookOnly(b)
    ELSE SpeakWithWordCallbackFrom(PageText(b.currentPage), FALSE, k, b)

\* startReading(pageNumber); 0: no page number
AStartReading(pageNumber, k) ==
  StartReadingFrom(IF pageNumber # 0
                     THEN [book EXCEPT !.currentPage = pageNumber]
                     ELSE book, k)

\* the callback of setTimeout(() => { this.startReading(); }, 500)
ATimeout(k) ==
  /\ book.timeouts > 0
  /\ microtasks = <<>>
  /\ StartReadingFrom([book EXCEPT !.timeouts = @ - 1], k)

\* stop()
AStop(k) == StopFrom(k, [book EXCEPT !.isPlaying = FALSE])

\* goToPage(pageNumber)
AGoToPage(pageNumber, k) ==
  IF pageNumber >= 1 /\ pageNumber <= book.totalPages
    THEN IF book.isPlaying
           THEN StopFrom(k, [book EXCEPT !.isPlaying = FALSE,
                                         !.currentPage = pageNumber,
                                         !.timeouts = @ + 1])
           ELSE BookOnly([book EXCEPT !.currentPage = pageNumber])
    ELSE BookOnly(book)

\* previousPage()
APreviousPage(k) ==
  IF book.currentPage > 1
    THEN IF book.isPlaying
           THEN StopFrom(k, [book EXCEPT !.currentPage = @ - 1,
                                         !.isPlaying = FALSE,
                                         !.timeouts = @ + 1])
           ELSE BookOnly([book EXCEPT !.currentPage = @ - 1])
    ELSE BookOnly(book)

\* nextPage(), from the page control
ANextPage == BookOnly(NextPage(book))

\* { ...a, ...b }
Spread(a, b) ==
  [key \in DOMAIN a \cup DOMAIN b |->
     IF key \in DOMAIN b THEN b[key] ELSE a[key]]

\* updateSettings(newSettings)
AUpdateSettings(newSettings) ==
  BookOnly([book EXCEPT !.settings = Spread(@, newSettings)])

-----------------------------------------------------------------------------
(* Provider selection: initialize() of CloudTtsManager
   (components/CloudTtsManager.js), TtsManager (unnamed/part_002) and
   TtsManagerFixed (components/TtsManagerFixed.js) *)

\* initialize() calls made on one instance per run
MaxInits == 2

Classes == {"CloudTtsManager", "TtsManager", "TtsManagerFixed"}

\* registerProviders(): the names of the providers it pushes, in order
Registered(class) ==
  CASE class = "CloudTtsManager" ->
         <<"Free Cloud TTS", "Alternative Cloud TTS",
           "Browser TTS (if available)", "Copy to External Service">>
    [] class = "TtsManager" ->
         <<"Web Speech API", "ElevenLabs TTS", "Azure Speech",
           "Browser Extension">>
    [] class = "TtsManagerFixed" ->
         <<"Enhanced Web Speech", "Free TTS API", "Extension Bridge",
           "Copy & Paste Helper">>

\* what the provider's test() does on some host: resolve true, resolve a falsy
\* value, or throw
TestOutcomes(class, name) ==
  CASE name = "Free Cloud TTS"             -> {"true", "throw"}
    [] name = "Alternative Cloud TTS"      -> {"true", "throw"}
    [] name = "Browser TTS (if available)" -> {"true", "false", "throw"}
    [] name = "Copy to External Service"   -> {"true"}
    [] name = "Web Speech API"             -> {"true", "false", "throw"}
    [] name = "ElevenLabs TTS"             -> {"true", "false", "throw"}
    [] name = "Azure Speech"               -> {"throw"}
    [] name = "Browser Extension"          -> {"true", "throw"}
    [] name = "Enhanced Web Speech"        -> {"true", "throw"}
    [] name = "Free TTS API"               -> {"throw"}
    [] name = "Extension Bridge"           -> {"true", "throw"}
    [] name = "Copy & Paste Helper"        -> {"true", "false"}

\* a selection that takes every test that did not throw for a success
IsAvailable_NotThrown(outcome) == outcome # "throw"

\* `if (isAvailable)` on what `await provider.test()` gave
IsAvailable(outcome) == outcome = "true"

NoProvider == 0

\* this.providers.find(p => p.name === name)
Find(providers, name) ==
  IF \E j \in 1..Len(providers) : providers[j] = name
    THEN CHOOSE j \in 1..Len(providers) :
           /\ providers[j] = name
           /\ \A l \in 1..(j - 1) : providers[l] # name
    ELSE NoProvider

\* a presenter that reports the guidance twice
ShowGuidance_Twice(m) ==
  IF m.onError THEN << <<"onError", "guidance">>, <<"onError", "guidance">> >>
               ELSE <<>>

\* showCloudTtsGuidance / showFallbackGuidance / showSystemSpecificGuidance:
\* the callbacks the presenter runs
ShowGuidance(m) ==
  IF m.onError THEN << <<"onError", "guidance">> >> ELSE <<>>

\* this.onSuccess?.(message)
Success(m) ==
  IF m.onSuccess THEN << <<"onSuccess">> >> ELSE <<>>

IdleRun ==
  [pc |-> "idle", i |-> 0, tested |-> <<>>, result |-> "none",
   guidance |-> 0, emitted |-> <<>>, n |-> 0]

\* a fresh instance, and the handlers its owner has assigned
SelectInit ==
  /\ mgr \in {[class |-> c, isInitialized |-> FALSE,
               currentProvider |-> NoProvider, providers |-> <<>>,
               onError |-> e, onSuccess |-> h] :
               c \in Classes, e \in BOOLEAN, h \in BOOLEAN}
  /\ run = IdleRun

\* initialize() up to its first `await provider.test()`
SInitialize ==
  /\ UNCHANGED offSelect
  /\ run.pc # "testing"
  /\ run.n < MaxInits
  /\ mgr' = [mgr EXCEPT !.providers = @ \o Registered(mgr.class)]
  /\ run' = [pc |-> "testing", i |-> 1, tested |-> <<>>, result |-> "none",
             guidance |-> 0, emitted |-> <<>>, n |-> run.n + 1]

\* initialize() from the settling of one `await provider.test()` to the next
\* await, or to its return; noVoices: speechSynthesis.getVoices() is empty
STestSettled(outcome, noVoices) ==
  /\ UNCHANGED offSelect
  /\ run.pc = "testing"
  /\ outcome \in TestOutcomes(mgr.class, mgr.providers[run.i])
  /\ LET tested == Append(run.tested, [provider |-> run.i, outcome |-> outcome])
         copy == Find(mgr.providers, "Copy & Paste Helper")
     IN
     IF IsAvailable(outcome)
       THEN /\ mgr' = [mgr EXCEPT
                 !.isInitialized = TRUE,
                 !.currentProvider =
                    IF /\ mgr.class = "TtsManagerFixed"
                       /\ mgr.providers[run.i] = "Enhanced Web Speech"
                       /\ noVoices
                       /\ copy # NoProvider
                      THEN copy ELSE run.i]
            /\ run' = [run EXCEPT !.pc = "done", !.tested = tested,
                                  !.result = "true",
                                  !.emitted = @ \o Success(mgr)]
     ELSE IF run.i < Len(mgr.providers)
       THEN /\ run' = [run EXCEPT !.i = @ + 1, !.tested = tested]
            /\ UNCHANGED mgr
     ELSE /\ run' = [run EXCEPT !.pc = "done", !.tested = tested,
                                !.result = "false",
                                !.guidance = @ + 1,
                                !.emitted = @ \o ShowGuidance(mgr)]
          /\ UNCHANGED mgr

\* `!this.isInitialized || !this.currentProvider`, left out
NotInitialized_Skipped(m) == FALSE

\* `!this.isInitialized || !this.currentProvider`
NotInitialized(m) == ~m.isInitialized \/ m.currentProvider = NoProvider

\* the message of the error speak() throws on a manager that is not initialized
NotInitializedError(class) ==
  IF class = "CloudTtsManager" THEN "Cloud TTS not initialized"
                               ELSE "TTS not initialized"

\* speak(text, options): the guard, then the call is handed to the speak
\* function of the current provider
SSpeak(text) ==
  /\ UNCHANGED <<tts, synth, utter, timers, microtasks, cloud, pubVars,
                 laterVars, book, mgr, run>>
  /\ calls < MaxCalls
  /\ calls' = calls + 1
  /\ obs' = IF NotInitialized(mgr)
              THEN Out(<<>>, NotInitializedError(mgr.class))
              ELSE Out(<< <<"currentProvider.speak", mgr.currentProvider,
                            text>> >>, "none")

-----------------------------------------------------------------------------
(* CloudTtsManager of unnamed/part_001, on the hosts where the ResponsiveVoice
   script does not load (window.responsiveVoice stays undefined) and
   detectPlatform() is none of android, windows and linux: every provider
   that can speak does so through speakWithWebSpeechAPI *)

\* registerProviders()
CloudProviders ==
  <<"ResponsiveVoice", "Web Speech API", "SpeechSynthesis Enhanced">>

\* provider.test() of the i-th provider: testResponsiveVoice,
\* testWebSpeechAPI, testSpeechSynthesisEnhanced
CloudTest(i) ==
  CASE i = 1 -> FALSE
    [] i = 2 -> synth.exists /\ synth.voices > 0
    [] i = 3 -> synth.exists /\ synth.voices > 0

\* this.onStatusChange?.({ isPlaying })
CloudStatus(p) ==
  IF cloud.onStatusChange THEN << <<"onStatusChange", p>> >> ELSE <<>>

\* the first provider from index `from` on whose test succeeds
CloudFirstAvailable(from) ==
  IF \E i \in from..Len(CloudProviders) : CloudTest(i)
    THEN CHOOSE i \in from..Len(CloudProviders) :
           CloudTest(i) /\ \A j \in from..(i - 1) : ~CloudTest(j)
    ELSE NoProvider

CloudInit ==
  /\ \E h \in BOOLEAN :
       cloud = [isInitialized |-> FALSE, currentProvider |-> NoProvider,
                isPlaying |-> FALSE, onStatusChange |-> h, onEnd |-> h,
                onError |-> h, onSuccess |-> h]
  /\ synth \in {[exists |-> e, voices |-> v, responsive |-> r,
                 queue |-> <<>>, speaking |-> FALSE, paused |-> FALSE,
                 events |-> <<>>] :
                 e \in BOOLEAN, v \in {0, 1}, r \in BOOLEAN}
  /\ utter = <<>>
  /\ microtasks = <<>>
  /\ obs = Quiet
  /\ calls = 0

\* initialize(), run to its resolution
CloudInitialize ==
  /\ UNCHANGED offCloud
  /\ microtasks = <<>>
  /\ calls < MaxCalls
  /\ calls' = calls + 1
  /\ LET first == CloudFirstAvailable(1)
     IN  IF first # NoProvider
           THEN /\ cloud' = [cloud EXCEPT !.currentProvider = first,
                                          !.isInitialized = TRUE]
                /\ obs' = Out(IF cloud.onSuccess THEN << <<"onSuccess">> >>
                                                 ELSE <<>>, "none")
           ELSE /\ UNCHANGED cloud
                /\ obs' = Out(IF cloud.onError
                                THEN << <<"onError", "guidance">> >>
                                ELSE <<>>, "none")
  \* getVoicesWithRetry: a dummy utterance is spoken and cancelled at once
  /\ synth' = IF synth.exists /\ synth.voices = 0
                THEN SynthCancel(SynthSpeak(synth, DummyUtterance), "none")
                ELSE synth
  /\ utter' = IF synth.exists /\ synth.voices = 0
                THEN Cancelled(Kept, synth.queue) ELSE Kept
  /\ UNCHANGED microtasks

\* the body of stop()
CloudStopBody(k) ==
  [cloud |-> [cloud EXCEPT !.isPlaying = FALSE],
   synth |-> IF synth.exists THEN SynthCancel(synth, k) ELSE synth,
   utter |-> IF synth.exists THEN Cancelled(Kept, synth.queue) ELSE Kept,
   emitted |-> CloudStatus(FALSE)]

\* speakWithWebSpeechAPI(text, options), reached from speak() (call = "speak")
\* or from tryFallbackProviders (call = "fallback") for provider i
SpeakWithWebSpeechAPI(text, call, i, k) ==
  LET s == CloudStopBody(k)
      u == NewId
  IN  [cloud |-> [s.cloud EXCEPT !.currentProvider = i],
       synth |-> SynthSpeak(s.synth, u),
       utter |-> [v \in DOMAIN s.utter \cup {u} |->
                    IF v = u THEN [text |-> text, state |-> "queued",
                                   promise |-> "pending", call |-> call,
                                   provider |-> i]
                             ELSE s.utter[v]],
       emitted |-> s.emitted]

\* speak(text, options) up to its `await this.currentProvider.speak(...)`
CloudSpeak(text, k) ==
  /\ UNCHANGED offCloud
  /\ calls < MaxCalls
  /\ calls' = calls + 1
  /\ IF ~cloud.isInitialized \/ cloud.currentProvider = NoProvider
       THEN /\ obs' = Out(<<>>, "Cloud TTS not initialized")
            /\ utter' = Kept
            /\ UNCHANGED <<cloud, synth>>
       ELSE LET s == SpeakWithWebSpeechAPI(text, "speak",
                                           cloud.currentProvider, k)
            IN  /\ cloud' = s.cloud
                /\ synth' = s.synth
                /\ utter' = s.utter
                /\ obs' = Out(s.emitted, "none")
  /\ UNCHANGED microtasks

\* the rejection of a provider's speak promise reaches its awaiter: the catch
\* of speak(), which calls tryFallbackProviders, or the catch inside the loop
\* of tryFallbackProviders, which goes on with the next provider
CloudTryFallbackProviders(k) ==
  /\ UNCHANGED offCloud
  /\ microtasks # <<>>
  /\ microtasks' = Tail(microtasks)
  /\ LET u == Head(microtasks)
         from == IF utter[u].call = "speak" THEN cloud.currentProvider + 1
                                            ELSE utter[u].provider + 1
         next == CloudFirstAvailable(from)
     IN  IF next # NoProvider
           THEN LET s == SpeakWithWebSpeechAPI(utter[u].text, "fallback",
                                               next, k)
                IN  /\ cloud' = s.cloud
                    /\ synth' = s.synth
                    /\ utter' = s.utter
                    /\ obs' = Out(s.emitted, "none")
           ELSE /\ obs' = Out(IF cloud.onError
                                THEN << <<"onError", "All TTS providers failed">> >>
                                ELSE <<>>, "none")
                /\ utter' = Kept
                /\ UNCHANGED <<cloud, synth>>
  /\ UNCHANGED calls

\* stop()
CloudStop(k) ==
  /\ UNCHANGED offCloud
  /\ calls < MaxCalls
  /\ calls' = calls + 1
  /\ LET s == CloudStopBody(k)
     IN  /\ cloud' = s.cloud
         /\ synth' = s.synth
         /\ utter' = s.utter
         /\ obs' = Out(s.emitted, "none")
  /\ UNCHANGED microtasks

\* pause()
CloudPause ==
  /\ UNCHANGED offCloud
  /\ calls < MaxCalls
  /\ calls' = calls + 1
  /\ IF synth.exists /\ synth.speaking /\ ~synth.paused
       THEN /\ synth' = [synth EXCEPT !.paused = TRUE]
            /\ obs' = Out(IF cloud.onStatusChange
                            THEN <<StatusChange(TRUE, TRUE)>> ELSE <<>>, "none")
       ELSE /\ obs' = Quiet
            /\ UNCHANGED synth
  /\ utter' = Kept
  /\ UNCHANGED <<cloud, microtasks>>

\* resume()
CloudResume ==
  /\ UNCHANGED offCloud
  /\ calls < MaxCalls
  /\ calls' = calls + 1
  /\ IF synth.exists /\ synth.paused
       THEN /\ synth' = [synth EXCEPT !.paused = FALSE]
            /\ obs' = Out(IF cloud.onStatusChange
                            THEN <<StatusChange(TRUE, FALSE)>> ELSE <<>>, "none")
       ELSE /\ obs' = Quiet
            /\ UNCHANGED synth
  /\ utter' = Kept
  /\ UNCHANGED <<cloud, microtasks>>

\* utterance.onstart
CloudOnStart(u) ==
  /\ cloud' = [cloud EXCEPT !.isPlaying = TRUE]
  /\ utter' = [Kept EXCEPT
                 ![u].state = "speaking",
                 ![u].promise = IF @ = "pending" THEN "resolved" ELSE @]
  /\ obs' = Out(CloudStatus(TRUE), "none")
  /\ UNCHANGED microtasks

\* utterance.onend
CloudOnEnd(u, state) ==
  /\ cloud' = [cloud EXCEPT !.isPlaying = FALSE]
  /\ utter' = [Kept EXCEPT ![u].state = state]
  /\ obs' = Out(CloudStatus(FALSE) \o
                (IF cloud.onEnd THEN << <<"onEnd", u>> >> ELSE <<>>), "none")
  /\ UNCHANGED microtasks

\* utterance.onerror: a rejection of the pending promise wakes its awaiter
CloudOnError(u, state) ==
  /\ cloud' = [cloud EXCEPT !.isPlaying = FALSE]
  /\ utter' = [Kept EXCEPT
                 ![u].state = state,
                 ![u].promise = IF @ = "pending" THEN "rejected" ELSE @]
  /\ microtasks' = IF Pending(u) THEN Append(microtasks, u) ELSE microtasks
  /\ obs' = Out(CloudStatus(FALSE), "none")

\* the event owed to a cancelled utterance reaches its handler
CloudEngineCancelEvent ==
  /\ UNCHANGED offCloud
  /\ microtasks = <<>>
  /\ synth.responsive
  /\ synth.events # <<>>
  /\ LET u == Head(synth.events)[1]
         kind == Head(synth.events)[2]
     IN  /\ synth' = [synth EXCEPT !.events = Tail(@)]
         /\ IF kind = "error" THEN CloudOnError(u, utter[u].state)
                              ELSE CloudOnEnd(u, utter[u].state)
  /\ UNCHANGED calls

\* the engine begins to speak the head of its queue
CloudEngineStart ==
  /\ UNCHANGED offCloud
  /\ microtasks = <<>>
  /\ synth.responsive
  /\ synth.events = <<>>
  /\ synth.queue # <<>>
  /\ ~synth.speaking
  /\ ~synth.paused
  /\ synth' = [synth EXCEPT !.speaking = TRUE]
  /\ CloudOnStart(Head(synth.queue))
  /\ UNCHANGED calls

\* the engine finishes the utterance it is speaking
CloudEngineEnd ==
  /\ UNCHANGED offCloud
  /\ microtasks = <<>>
  /\ synth.responsive
  /\ synth.events = <<>>
  /\ synth.queue # <<>>
  /\ synth.speaking
  /\ ~synth.paused
  /\ synth' = [synth EXCEPT !.queue = Tail(@), !.speaking = FALSE]
  /\ CloudOnEnd(Head(synth.queue), "ended")
  /\ UNCHANGED calls

\* the engine fails on the head of its queue
CloudEngineError ==
  /\ UNCHANGED offCloud
  /\ microtasks = <<>>
  /\ synth.responsive
  /\ synth.events = <<>>
  /\ synth.queue # <<>>
  /\ synth' = [synth EXCEPT !.queue = Tail(@), !.speaking = FALSE]
  /\ CloudOnError(Head(synth.queue), "errored")
  /\ UNCHANGED calls

-----------------------------------------------------------------------------
(* UniversalTtsManager of public/UniversalTtsManager.js, on the hosts where
   ResponsiveVoice never becomes ready (its script is blocked, or is in the
   page and never initialises) *)

\* the order of tryFallbackProvider
ProviderOrder == <<"responsiveVoice", "webSpeech", "speechSynthesis", "cloudTts">>

\* providers.indexOf(name), counted from 1; 0 for a name that is not there
IndexOf(name) ==
  IF \E i \in 1..Len(ProviderOrder) : ProviderOrder[i] = name
    THEN CHOOSE i \in 1..Len(ProviderOrder) : ProviderOrder[i] = name
    ELSE 0

\* the platforms of detectPlatform() by the shape of their voice loading:
\* poll until a voice is there (ios), trigger and read (windows), read (macos)
Platforms == {"ios", "windows", "macos"}

PubTexts == {TextHello, TextAB}

\* this.providers of the constructor: availability and number of voices
NewProviders ==
  [responsiveVoice |-> [available |-> FALSE, voices |-> 0, priority |-> 1],
   webSpeech       |-> [available |-> FALSE, voices |-> 0, priority |-> 2],
   speechSynthesis |-> [available |-> FALSE, voices |-> 0, priority |-> 3],
   cloudTts        |-> [available |-> TRUE,  voices |-> 0, priority |-> 4]]

\* a selection that takes the available provider of the highest priority number
SelectBestProvider_HighestNumber(providers) ==
  LET ok == {n \in DOMAIN providers : providers[n].available}
  IN  IF ok = {} THEN "null"
      ELSE CHOOSE n \in ok :
             \A o \in ok : providers[n].priority >= providers[o].priority

\* selectBestProvider(): the available providers by ascending priority, the
\* first that passes its branch
SelectBestProvider(providers) ==
  LET passes(n) ==
        /\ providers[n].available
        /\ n \in {"webSpeech", "speechSynthesis"} => providers[n].voices > 0
      ok == {n \in DOMAIN providers : passes(n)}
  IN  IF ok = {} THEN "null"
      ELSE CHOOSE n \in ok :
             \A o \in ok : providers[n].priority <= providers[o].priority

PubInit ==
  /\ \E h \in BOOLEAN :
       pub = [isInitialized |-> FALSE, currentUtterance |-> NoUtterance,
              isPlaying |-> FALSE, isPaused |-> FALSE,
              userInteractionRequired |-> TRUE,
              providers |-> NewProviders, selectedProvider |-> "null",
              onStatusChange |-> h, onSuccess |-> h]
  /\ pinit = [pc |-> "idle", n |-> 0]
  /\ page \in {[platform |-> pf, rvTag |-> t, modal |-> <<>>] :
                 pf \in Platforms, t \in BOOLEAN}
  /\ synth \in {[exists |-> e, voices |-> v, responsive |-> TRUE,
                 queue |-> <<>>, speaking |-> FALSE, paused |-> FALSE,
                 events |-> <<>>] : e \in BOOLEAN, v \in {0, 1}}
  /\ utter = <<>>
  /\ microtasks = <<>>
  /\ obs = Quiet
  /\ calls = 0

\* an utterance object is referenced by the engine, by the manager, or by the
\* fallback frame that awaits it or is about to go on
PubReferenced(u) ==
  \/ u \in Range(synth.queue)
  \/ \E i \in 1..Len(synth.events) : synth.events[i][1] = u
  \/ u \in Range(microtasks)
  \/ u = pub.currentUtterance
  \/ \E v \in DOMAIN utter : Pending(v) /\ utter[v].awaiter = u

PubKept ==
  [u \in {v \in DOMAIN utter : Live(v) \/ PubReferenced(v) \/ Pending(v)} |->
     utter[u]]

\* this.onStatusChange?.({ isPlaying, isPaused, provider })
PubStatus(p, q) ==
  IF pub.onStatusChange THEN <<StatusChange(p, q)>> ELSE <<>>

\* the id of a new utterance object among the objects ut
FreshId(ut) ==
  CHOOSE u \in 1..(Cardinality(DOMAIN ut) + 1) : u \notin DOMAIN ut

\* stop() on manager m, engine sy and utterance objects ut
PubStopOn(m, sy, ut, k) ==
  [pub   |-> [m EXCEPT !.isPlaying = FALSE, !.isPaused = FALSE,
                       !.currentUtterance = NoUtterance],
   synth |-> IF sy.exists THEN SynthCancel(sy, k) ELSE sy,
   utter |-> IF sy.exists THEN Cancelled(ut, sy.queue) ELSE ut]

\* speakWithWebSpeech(text, options); awaiter: the utterance whose fallback
\* frame awaits the promise, if the call comes from tryFallbackProvider
PubSpeakWithWebSpeech(m, sy, ut, text, awaiter, k) ==
  IF ~sy.exists
    THEN [pub |-> m, synth |-> sy, utter |-> ut, emitted |-> <<>>,
          thrown |-> "Web Speech API not available"]
    ELSE LET s == PubStopOn(m, sy, ut, k)
             u == FreshId(ut)
         IN  [pub   |-> [s.pub EXCEPT !.currentUtterance = u],
              synth |-> SynthSpeak(s.synth, u),
              utter |-> [v \in DOMAIN s.utter \cup {u} |->
                           IF v = u
                             THEN [text |-> text, state |-> "queued",
                                   promise |-> "pending",
                                   provider |-> m.selectedProvider,
                                   awaiter |-> awaiter, i |-> 0, tried |-> {}]
                             ELSE s.utter[v]],
              emitted |-> <<>>,
              thrown |-> "none"]

\* the switch of speak(text, options) on this.selectedProvider
PubRoute(m, sy, ut, text, awaiter, k) ==
  CASE m.selectedProvider \in {"webSpeech", "speechSynthesis"} ->
         PubSpeakWithWebSpeech(m, sy, ut, text, awaiter, k)
    [] m.selectedProvider = "cloudTts" ->
         [pub |-> m, synth |-> sy, utter |-> ut,
          emitted |-> << <<"showCloudTtsModal", text>> >>, thrown |-> "none"]
    [] m.selectedProvider = "responsiveVoice" ->
         [pub |-> m, synth |-> sy, utter |-> ut, emitted |-> <<>>,
          thrown |-> "ResponsiveVoice not available"]
    [] OTHER ->
         [pub |-> m, synth |-> sy, utter |-> ut, emitted |-> <<>>,
          thrown |-> "No TTS provider available"]

\* the providers the loop of tryFallbackProvider can take from index `from` on
AvailableFrom(m, from) ==
  {i \in from..Len(ProviderOrder) : m.providers[ProviderOrder[i]].available}

\* tryFallbackProvider(text, options, reject) for utterance u, its loop entered
\* at index `from`, up to its `await this.speak(...)` or to its reject(...);
\* wake: the awaiter whom the rejection wakes
PubTryFallbackProvider(m, sy, ut, u, from, k) ==
  IF AvailableFrom(m, from) = {}
    THEN [pub |-> m, synth |-> sy,
          utter |-> [ut EXCEPT ![u].promise =
                       IF @ = "pending" THEN "rejected" ELSE @],
          emitted |-> <<>>,
          wake |-> IF ut[u].promise = "pending" /\ ut[u].awaiter # NoUtterance
                     THEN <<ut[u].awaiter>> ELSE <<>>]
    ELSE LET i == CHOOSE j \in AvailableFrom(m, from) :
                    \A l \in AvailableFrom(m, from) : j <= l
             r == PubRoute([m EXCEPT !.selectedProvider = ProviderOrder[i]],
                           sy,
                           [ut EXCEPT ![u].i = i,
                                      ![u].tried = @ \cup {ProviderOrder[i]}],
                           ut[u].text, u, k)
         IN  [pub |-> r.pub, synth |-> r.synth, utter |-> r.utter,
              emitted |-> r.emitted,
              \* a speak() that throws is caught by the loop, which goes on
              wake |-> IF r.thrown = "none" THEN <<>> ELSE <<u>>]

\* initialize() up to the wait of loadResponsiveVoice()
PubInitialize ==
  /\ UNCHANGED offPub
  /\ pinit.pc \in {"idle", "done"}
  /\ pinit.n < MaxInits
  /\ pinit' = [pc |-> IF page.rvTag THEN "rvPoll" ELSE "rvLoad",
               n |-> pinit.n + 1]
  /\ page' = [page EXCEPT !.rvTag = TRUE]
  /\ obs' = Quiet
  /\ utter' = PubKept
  /\ UNCHANGED <<pub, synth, microtasks, calls>>

\* loadResponsiveVoice(), a script tag being in the page already: checkReady
\* finds the library not ready and sets its timer again
PubCheckReady ==
  /\ UNCHANGED offPub
  /\ pinit.pc = "rvPoll"
  /\ microtasks = <<>>
  /\ obs' = Quiet
  /\ utter' = PubKept
  /\ UNCHANGED <<pub, pinit, page, synth, microtasks, calls>>

\* loadResponsiveVoice() with the script tag it appended: script.onerror, or the
\* 10 s timeout, rejects, and initializeResponsiveVoice() catches
PubResponsiveVoiceFailed ==
  /\ UNCHANGED offPub
  /\ pinit.pc = "rvLoad"
  /\ microtasks = <<>>
  /\ pinit' = [pinit EXCEPT !.pc = "webSpeech"]
  /\ obs' = Quiet
  /\ utter' = PubKept
  /\ UNCHANGED <<pub, page, synth, microtasks, calls>>

\* initializeWebSpeech(): loadVoicesEnhanced() speaks and cancels a dummy
\* utterance when the first read finds no voice
PubInitializeWebSpeech(k) ==
  /\ UNCHANGED offPub
  /\ pinit.pc = "webSpeech"
  /\ microtasks = <<>>
  /\ pinit' = [pinit EXCEPT !.pc = "enhanced"]
  /\ IF ~synth.exists
       THEN /\ utter' = PubKept
            /\ UNCHANGED <<pub, synth>>
     ELSE IF synth.voices > 0
       THEN /\ pub' = [pub EXCEPT !.providers.webSpeech =
                         [available |-> TRUE, voices |-> synth.voices,
                          priority |-> 2]]
            /\ utter' = PubKept
            /\ UNCHANGED synth
     ELSE /\ synth' = SynthCancel(SynthSpeak(synth, DummyUtterance), k)
          /\ utter' = Cancelled(PubKept, synth.queue)
          /\ UNCHANGED pub
  /\ obs' = Quiet
  /\ UNCHANGED <<page, microtasks, calls>>

\* loadIOSVoices(): checkVoices finds no voice and sets its timer again
PubCheckVoices ==
  /\ UNCHANGED offPub
  /\ pinit.pc = "enhanced"
  /\ microtasks = <<>>
  /\ synth.exists /\ page.platform = "ios" /\ synth.voices = 0
  /\ obs' = Quiet
  /\ utter' = PubKept
  /\ UNCHANGED <<pub, pinit, page, synth, microtasks, calls>>

\* initializeEnhancedSpeechSynthesis() once its voice loading has resolved,
\* initializeCloudTts(), selectBestProvider() and the return of initialize()
PubInitializeEnhanced(k) ==
  /\ UNCHANGED offPub
  /\ pinit.pc = "enhanced"
  /\ microtasks = <<>>
  /\ ~(synth.exists /\ page.platform = "ios" /\ synth.voices = 0)
  /\ pinit' = [pinit EXCEPT !.pc = "done"]
  /\ LET trigger == synth.exists /\ page.platform = "windows"
         providers ==
           [pub.providers EXCEPT
              !.speechSynthesis =
                 IF synth.exists /\ synth.voices > 0
                   THEN [available |-> TRUE, voices |-> synth.voices,
                         priority |-> 3]
                   ELSE @,
              !.cloudTts = [available |-> TRUE, voices |-> 0, priority |-> 4]]
         selected == SelectBestProvider(providers)
     IN  /\ synth' = IF trigger
                       THEN SynthCancel(SynthSpeak(synth, DummyUtterance), k)
                       ELSE synth
         /\ utter' = IF trigger THEN Cancelled(PubKept, synth.queue)
                                ELSE PubKept
         /\ pub' = [pub EXCEPT !.providers = providers,
                               !.selectedProvider = selected,
                               !.isInitialized = @ \/ selected # "null"]
         /\ obs' = Out(IF selected # "null" /\ pub.onSuccess
                         THEN << <<"onSuccess">> >> ELSE <<>>, "none")
  /\ UNCHANGED <<page, microtasks, calls>>

\* speak(text, options): up to the enable modal while the user has not yet
\* interacted, else through the switch on the provider
PubSpeak(text, k) ==
  /\ UNCHANGED offPub
  /\ calls < MaxCalls
  /\ calls' = calls + 1
  /\ IF ~pub.isInitialized
       THEN /\ obs' = Out(<<>>, "TTS not initialized")
            /\ utter' = PubKept
            /\ UNCHANGED <<pub, synth, page>>
     ELSE IF pub.userInteractionRequired
       THEN /\ page' = [page EXCEPT !.modal = <<text>>]
            /\ obs' = Quiet
            /\ utter' = PubKept
            /\ UNCHANGED <<pub, synth>>
     ELSE LET r == PubRoute(pub, synth, PubKept, text, NoUtterance, k)
          IN  /\ pub' = r.pub
              /\ synth' = r.synth
              /\ utter' = r.utter
              /\ obs' = Out(r.emitted, r.thrown)
              /\ UNCHANGED page
  /\ UNCHANGED <<pinit, microtasks>>

\* the user clicks the enable button of the modal; the speak() call that
\* waits on it goes on through the switch on the provider
PubEnableClick(k) ==
  /\ UNCHANGED offPub
  /\ page.modal # <<>>
  /\ microtasks = <<>>
  /\ page' = [page EXCEPT !.modal = <<>>]
  /\ LET r == PubRoute([pub EXCEPT !.userInteractionRequired = FALSE],
                       synth, PubKept, page.modal[1], NoUtterance, k)
     IN  /\ pub' = r.pub
         /\ synth' = r.synth
         /\ utter' = r.utter
         /\ obs' = Out(r.emitted, r.thrown)
  /\ UNCHANGED <<pinit, microtasks, calls>>

\* stop()
PubStop(k) ==
  /\ UNCHANGED offPub
  /\ calls < MaxCalls
  /\ calls' = calls + 1
  /\ LET s == PubStopOn(pub, synth, PubKept, k)
     IN  /\ pub' = s.pub
         /\ synth' = s.synth
         /\ utter' = s.utter
  /\ obs' = Quiet
  /\ UNCHANGED <<pinit, page, microtasks>>

\* pause()
PubPause ==
  /\ UNCHANGED offPub
  /\ calls < MaxCalls
  /\ calls' = calls + 1
  /\ IF /\ pub.selectedProvider \in {"webSpeech", "speechSynthesis"}
        /\ synth.exists /\ synth.speaking /\ ~synth.paused
       THEN /\ synth' = [synth EXCEPT !.paused = TRUE]
            /\ pub' = [pub EXCEPT !.isPaused = TRUE]
       ELSE UNCHANGED <<pub, synth>>
  /\ obs' = Quiet
  /\ utter' = PubKept
  /\ UNCHANGED <<pinit, page, microtasks>>

\* resume()
PubResume ==
  /\ UNCHANGED offPub
  /\ calls < MaxCalls
  /\ calls' = calls + 1
  /\ IF /\ pub.selectedProvider \in {"webSpeech", "speechSynthesis"}
        /\ synth.exists /\ synth.paused
       THEN /\ synth' = [synth EXCEPT !.paused = FALSE]
            /\ pub' = [pub EXCEPT !.isPaused = FALSE]
       ELSE UNCHANGED <<pub, synth>>
  /\ obs' = Quiet
  /\ utter' = PubKept
  /\ UNCHANGED <<pinit, page, microtasks>>

\* utterance.onstart
PubOnStart(u) ==
  /\ pub' = [pub EXCEPT !.isPlaying = TRUE, !.isPaused = FALSE]
  /\ utter' = [PubKept EXCEPT
                 ![u].state = "speaking",
                 ![u].promise = IF @ = "pending" THEN "resolved" ELSE @]
  /\ obs' = Out(PubStatus(TRUE, FALSE), "none")
  /\ UNCHANGED microtasks

\* utterance.onend
PubOnEnd(u, state) ==
  /\ pub' = [pub EXCEPT !.isPlaying = FALSE, !.isPaused = FALSE,
                        !.currentUtterance = NoUtterance]
  /\ utter' = [PubKept EXCEPT ![u].state = state]
  /\ obs' = Out(PubStatus(FALSE, FALSE), "none")
  /\ UNCHANGED microtasks

\* utterance.onerror on engine sy (the engine after the event): the state is
\* reset and tryFallbackProvider is entered after the selected provider
PubOnError(u, state, sy, k) ==
  LET r == PubTryFallbackProvider(
             [pub EXCEPT !.isPlaying = FALSE, !.isPaused = FALSE,
                         !.currentUtterance = NoUtterance],
             sy,
             [PubKept EXCEPT ![u].state = state],
             u, IndexOf(pub.selectedProvider) + 1, k)
  IN  /\ pub' = r.pub
      /\ synth' = r.synth
      /\ utter' = r.utter
      /\ microtasks' = microtasks \o r.wake
      /\ obs' = Out(r.emitted, "none")

\* the rejection of the speak() a fallback frame awaits reaches the frame: its
\* loop goes on with the next provider
PubFallbackResume(k) ==
  /\ UNCHANGED offPub
  /\ microtasks # <<>>
  /\ LET u == Head(microtasks)
         r == PubTryFallbackProvider(pub, synth, PubKept, u,
                                     utter[u].i + 1, k)
     IN  /\ pub' = r.pub
         /\ synth' = r.synth
         /\ utter' = r.utter
         /\ microtasks' = Tail(microtasks) \o r.wake
         /\ obs' = Out(r.emitted, "none")
  /\ UNCHANGED <<pinit, page, calls>>

\* the error event owed to a cancelled utterance reaches its handler
PubEngineCancelError(k) ==
  /\ UNCHANGED offPub
  /\ microtasks = <<>>
  /\ synth.events # <<>>
  /\ Head(synth.events)[2] = "error"
  /\ PubOnError(Head(synth.events)[1], utter[Head(synth.events)[1]].state,
                [synth EXCEPT !.events = Tail(@)], k)
  /\ UNCHANGED <<pinit, page, calls>>

\* the end event owed to a cancelled utterance reaches its handler
PubEngineCancelEnd ==
  /\ UNCHANGED offPub
  /\ microtasks = <<>>
  /\ synth.events # <<>>
  /\ Head(synth.events)[2] = "end"
  /\ synth' = [synth EXCEPT !.events = Tail(@)]
  /\ PubOnEnd(Head(synth.events)[1], utter[Head(synth.events)[1]].state)
  /\ UNCHANGED <<pinit, page, calls>>

\* the engine begins to speak the head of its queue
PubEngineStart ==
  /\ UNCHANGED offPub
  /\ microtasks = <<>>
  /\ synth.events = <<>>
  /\ synth.queue # <<>>
  /\ ~synth.speaking
  /\ ~synth.paused
  /\ synth' = [synth EXCEPT !.speaking = TRUE]
  /\ PubOnStart(Head(synth.queue))
  /\ UNCHANGED <<pinit, page, calls>>

\* the engine finishes the utterance it is speaking
PubEngineEnd ==
  /\ UNCHANGED offPub
  /\ microtasks = <<>>
  /\ synth.events = <<>>
  /\ synth.queue # <<>>
  /\ synth.speaking
  /\ ~synth.paused
  /\ synth' = [synth EXCEPT !.queue = Tail(@), !.speaking = FALSE]
  /\ PubOnEnd(Head(synth.queue), "ended")
  /\ UNCHANGED <<pinit, page, calls>>

\* the engine fails on the head of its queue (synthesis-failed, network, ...)
PubEngineError(k) ==
  /\ UNCHANGED offPub
  /\ microtasks = <<>>
  /\ synth.events = <<>>
  /\ synth.queue # <<>>
  /\ PubOnError(Head(synth.queue), "errored",
                [synth EXCEPT !.queue = Tail(@), !.speaking = FALSE], k)
  /\ UNCHANGED <<pinit, page, calls>>

-----------------------------------------------------------------------------
(* initialize() and loadVoices() of UniversalTTSManager, scripts/tts-manager.js
   (loadVoices() of SimpleTtsManager, public/SimpleTtsManager.js, is the same
   text) *)

\* const maxAttempts = 50
maxAttempts == 50

\* voiceschanged events the host fires per run
MaxVoicesChanged == 2

\* `attempts >= maxAttempts`, never true
GiveUp_Never(attempts) == FALSE

\* `attempts >= maxAttempts`
GiveUp(attempts) == attempts >= maxAttempts

LoadIdle ==
  [pc |-> "idle", attempts |-> 0, armed |-> 0, listener |-> FALSE,
   changes |-> 0, result |-> "none", resolvedAt |-> 0]

\* loadVoicesAttempt() reading `voices` from the host. The attempt that resolves
\* the promise lets initialize() go on at once (its continuation runs before
\* any timer or event): isInitialized is set and hasVoices is returned
LoadVoicesAttempt(l, t, voices) ==
  LET a == l.attempts + 1
      resolves == voices > 0 \/ GiveUp(a)
      first == resolves /\ l.pc = "loading"
  IN  [ld  |-> [l EXCEPT !.attempts = a,
                         !.armed = IF resolves THEN @ ELSE @ + 1,
                         !.pc = IF first THEN "returned" ELSE @,
                         !.resolvedAt = IF first THEN a ELSE @,
                         !.result = IF first
                                      THEN (IF voices > 0 THEN "true"
                                                          ELSE "false")
                                      ELSE @],
       tts |-> [t EXCEPT !.availableVoices = voices,
                         !.isInitialized = @ \/ first]]

LoadInit ==
  /\ tts = [isInitialized |-> FALSE, currentUtterance |-> NoUtterance,
            isPlaying |-> FALSE, isPaused |-> FALSE,
            availableVoices |-> 0, wordTimer |-> NoTimer,
            currentWords |-> <<>>, currentWordIndex |-> 0,
            onWordStart |-> NoCallback]
  /\ synth \in {[exists |-> e, voices |-> v, responsive |-> FALSE,
                 queue |-> <<>>, speaking |-> FALSE, paused |-> FALSE,
                 events |-> <<>>] : e \in BOOLEAN, v \in {0, 1}}
  /\ utter = <<>>
  /\ timers = {}
  /\ microtasks = <<>>
  /\ obs = Quiet
  /\ calls = 0
  /\ ld = LoadIdle

\* initialize() up to the wait of loadVoices(): the listener is added, the
\* first attempt is made, and an empty utterance is spoken if the list is empty
LInitialize ==
  /\ UNCHANGED offLoad
  /\ ld.pc = "idle"
  /\ IF ~synth.exists
       THEN /\ ld' = [ld EXCEPT !.pc = "returned", !.result = "false"]
            /\ UNCHANGED <<tts, synth>>
       ELSE LET r == LoadVoicesAttempt(
                       [ld EXCEPT !.pc = "loading", !.listener = TRUE],
                       tts, synth.voices)
            IN  /\ ld' = r.ld
                /\ tts' = r.tts
                /\ synth' = IF synth.voices = 0
                              THEN SynthSpeak(synth, DummyUtterance)
                              ELSE synth
  /\ obs' = Quiet
  /\ UNCHANGED calls

\* a timer set by `setTimeout(loadVoicesAttempt, 100)` fires
LAttemptTimer ==
  /\ UNCHANGED offLoad
  /\ ld.armed > 0
  /\ microtasks = <<>>
  /\ LET r == LoadVoicesAttempt([ld EXCEPT !.armed = @ - 1], tts,
                                synth.voices)
     IN  /\ ld' = r.ld
         /\ tts' = r.tts
  /\ obs' = Quiet
  /\ UNCHANGED <<synth, calls>>

\* the host changes its voice list to `voices` and fires voiceschanged; the
\* listener, once added, is never removed
LVoicesChanged(voices) ==
  /\ UNCHANGED offLoad
  /\ synth.exists
  /\ microtasks = <<>>
  /\ ld.changes < MaxVoicesChanged
  /\ synth' = [synth EXCEPT !.voices = voices]
  /\ IF ld.listener
       THEN LET r == LoadVoicesAttempt([ld EXCEPT !.changes = @ + 1], tts,
                                       voices)
            IN  /\ ld' = r.ld
                /\ tts' = r.tts
       ELSE /\ ld' = [ld EXCEPT !.changes = @ + 1]
            /\ UNCHANGED tts
  /\ obs' = Quiet
  /\ UNCHANGED calls

-----------------------------------------------------------------------------
(* TtsManagerFixed of components/TtsManagerFixed.js speaking through its
   provider 'Enhanced Web Speech' *)

\* the fields the constructor sets; e, h: the caller assigns onError,
\* onStatusChange
FixedNew(e, h) ==
  [isInitialized |-> FALSE, currentProvider |-> NoProvider,
   isPlaying |-> FALSE, currentUtterance |-> NoUtterance,
   onError |-> e, onStatusChange |-> h]

FixedProviders == Registered("TtsManagerFixed")

\* the engine error codes that are no cancellation
GenuineErrors == {"synthesis-failed", "network", "audio-busy"}

FixedInit ==
  /\ \E e \in BOOLEAN, h \in BOOLEAN : fx = FixedNew(e, h)
  /\ synth \in {[exists |-> x, voices |-> v, responsive |-> TRUE,
                 queue |-> <<>>, speaking |-> FALSE, paused |-> FALSE,
                 events |-> <<>>] : x \in BOOLEAN, v \in {0, 1}}
  /\ utter = <<>>
  /\ obs = Quiet
  /\ calls = 0

\* this.onStatusChange?.({ isPlaying, provider: 'Enhanced Web Speech' })
FixedStatus(p) ==
  IF fx.onStatusChange THEN << <<"onStatusChange", p>> >> ELSE <<>>

\* the utterance objects a step starts from
FixedKept ==
  [u \in {v \in DOMAIN utter :
            \/ Live(v) \/ Pending(v)
            \/ v \in Range(synth.queue)
            \/ \E i \in 1..Len(synth.events) : synth.events[i][1] = v
            \/ v = fx.currentUtterance} |-> utter[u]]

\* initialize() run to its return; outcomes: what each provider's test() does
\* on this host
FInitialize(outcomes) ==
  /\ UNCHANGED offFixed
  /\ ~fx.isInitialized
  /\ \A i \in 1..Len(FixedProviders) :
       outcomes[i] \in TestOutcomes("TtsManagerFixed", FixedProviders[i])
  /\ synth.exists \/ outcomes[1] = "throw"
  /\ LET ok == {i \in 1..Len(FixedProviders) : IsAvailable(outcomes[i])}
         first == CHOOSE i \in ok : \A j \in ok : i <= j
         copy == Find(FixedProviders, "Copy & Paste Helper")
     IN  fx' = IF ok = {} THEN fx
               ELSE [fx EXCEPT
                       !.isInitialized = TRUE,
                       !.currentProvider =
                          IF first = 1 /\ synth.voices = 0 THEN copy
                                                            ELSE first]
  /\ obs' = Quiet
  /\ utter' = FixedKept
  /\ UNCHANGED <<synth, calls>>

\* stopEnhancedWebSpeech() on manager m, engine sy and utterance objects ut
StopEnhancedWebSpeech(m, sy, ut, k) ==
  IF sy.exists
    THEN [fx    |-> [m EXCEPT !.isPlaying = FALSE,
                              !.currentUtterance = NoUtterance],
          synth |-> SynthCancel(sy, k),
          utter |-> Cancelled(ut, sy.queue)]
    ELSE [fx |-> m, synth |-> sy, utter |-> ut]

\* speak(text, options): the guard, then the speak function of the current
\* provider; for 'Enhanced Web Speech' that is speakEnhancedWebSpeech
FSpeak(text, k) ==
  /\ UNCHANGED offFixed
  /\ calls < MaxCalls
  /\ calls' = calls + 1
  /\ IF NotInitialized(fx)
       THEN /\ obs' = Out(<<>>, "TTS not initialized")
            /\ utter' = FixedKept
            /\ UNCHANGED <<fx, synth>>
     ELSE IF FixedProviders[fx.currentProvider] # "Enhanced Web Speech"
       THEN /\ obs' = Out(<< <<"currentProvider.speak", fx.currentProvider,
                               text>> >>, "none")
            /\ utter' = FixedKept
            /\ UNCHANGED <<fx, synth>>
     ELSE LET s == StopEnhancedWebSpeech(fx, synth, FixedKept, k)
              u == FreshId(FixedKept)
          IN  /\ fx' = [s.fx EXCEPT !.currentUtterance = u]
              /\ synth' = SynthSpeak(s.synth, u)
              /\ utter' = [v \in DOMAIN s.utter \cup {u} |->
                             IF v = u
                               THEN [text |-> text, state |-> "queued",
                                     promise |-> "pending", error |-> "none"]
                               ELSE s.utter[v]]
              /\ obs' = Quiet

\* stop() with the provider 'Enhanced Web Speech'
FStop(k) ==
  /\ UNCHANGED offFixed
  /\ calls < MaxCalls
  /\ calls' = calls + 1
  /\ fx.currentProvider # NoProvider
  /\ FixedProviders[fx.currentProvider] = "Enhanced Web Speech"
  /\ LET s == StopEnhancedWebSpeech(fx, synth, FixedKept, k)
     IN  /\ fx' = s.fx
         /\ synth' = s.synth
         /\ utter' = s.utter
  /\ obs' = Quiet

\* utterance.onerror with event.error = code: every branch resolves
FixedOnError(u, state, code) ==
  /\ fx' = [fx EXCEPT !.isPlaying = FALSE, !.currentUtterance = NoUtterance]
  /\ utter' = [FixedKept EXCEPT
                 ![u].state = state,
                 ![u].error = code,
                 ![u].promise = IF @ = "pending" THEN "resolved" ELSE @]
  /\ obs' = Quiet

\* utterance.onend
FixedOnEnd(u, state) ==
  /\ fx' = [fx EXCEPT !.isPlaying = FALSE, !.currentUtterance = NoUtterance]
  /\ utter' = [FixedKept EXCEPT ![u].state = state]
  /\ obs' = Out(FixedStatus(FALSE), "none")

\* the event owed to a cancelled utterance reaches its handler
FEngineCancelEvent ==
  /\ UNCHANGED offFixed
  /\ synth.events # <<>>
  /\ LET u == Head(synth.events)[1]
     IN  IF Head(synth.events)[2] = "error"
           THEN FixedOnError(u, utter[u].state, "canceled")
           ELSE FixedOnEnd(u, utter[u].state)
  /\ synth' = [synth EXCEPT !.events = Tail(@)]
  /\ UNCHANGED calls

\* the engine begins to speak the head of its queue: utterance.onstart
FEngineStart ==
  /\ UNCHANGED offFixed
  /\ synth.events = <<>>
  /\ synth.queue # <<>>
  /\ ~synth.speaking
  /\ synth' = [synth EXCEPT !.speaking = TRUE]
  /\ fx' = [fx EXCEPT !.isPlaying = TRUE]
  /\ utter' = [FixedKept EXCEPT
                 ![Head(synth.queue)].state = "speaking",
                 ![Head(synth.queue)].promise =
                    IF @ = "pending" THEN "resolved" ELSE @]
  /\ obs' = Out(FixedStatus(TRUE), "none")
  /\ UNCHANGED calls

\* the engine finishes the utterance it is speaking
FEngineEnd ==
  /\ UNCHANGED offFixed
  /\ synth.events = <<>>
  /\ synth.queue # <<>>
  /\ synth.speaking
  /\ synth' = [synth EXCEPT !.queue = Tail(@), !.speaking = FALSE]
  /\ FixedOnEnd(Head(synth.queue), "ended")
  /\ UNCHANGED calls

\* the engine fails on the head of its queue with a genuine error
FEngineError(code) ==
  /\ UNCHANGED offFixed
  /\ synth.events = <<>>
  /\ synth.queue # <<>>
  /\ synth' = [synth EXCEPT !.queue = Tail(@), !.speaking = FALSE]
  /\ FixedOnError(Head(synth.queue), "errored", code)
  /\ UNCHANGED calls

-----------------------------------------------------------------------------
(* The configuration of an utterance: rate, pitch, volume and voice.
   Numbers are in hundredths (rate 0.9 is 90); a JavaScript value that is
   expected to be a number is a number, NaN or undefined *)

Num(v) == [k |-> "num", v |-> v]
NaN == [k |-> "NaN", v |-> 0]
Undefined == [k |-> "undefined", v |-> 0]

\* the values a caller passes for options.rate, .pitch and .volume
OptionValues ==
  {Undefined, NaN, Num(0), Num(5), Num(50), Num(100), Num(150), Num(2000),
   Num(-100)}

\* JavaScript's a || d for a number-valued a
Or(a, d) == IF a.k # "num" \/ a.v = 0 THEN d ELSE a

\* Math.min(a, b), Math.max(a, b): NaN if either is NaN
MathMin(a, b) ==
  IF a.k # "num" \/ b.k # "num" THEN NaN
  ELSE IF a.v <= b.v THEN a ELSE b

MathMax(a, b) ==
  IF a.k # "num" \/ b.k # "num" THEN NaN
  ELSE IF a.v >= b.v THEN a ELSE b

\* the platforms detectPlatform() of the managers tells apart
CalcPlatforms == {"mac", "windows", "android", "ios", "linux", "unknown"}

\* what the host does when a script assigns v to the float attribute rate,
\* pitch or volume of an utterance: a finite number is stored; for a
\* non-finite one the host throws a TypeError or, binding the attribute
\* loosely, stores it
SetFloat(v) ==
  IF v.k = "num" THEN {[thrown |-> "none", value |-> v]}
  ELSE {[thrown |-> "TypeError", value |-> Num(100)],
        [thrown |-> "none", value |-> NaN]}

\* getOptimalRate(platform, userRate) of SimpleTtsManager
GetOptimalRate(platform, userRate) ==
  IF userRate # Undefined THEN userRate
  ELSE CASE platform = "mac"     -> Num(95)
         [] platform = "windows" -> Num(90)
         [] platform = "android" -> Num(85)
         [] platform = "ios"     -> Num(95)
         [] platform = "linux"   -> Num(85)
         [] OTHER                -> Num(90)

\* getOptimalPitch(platform, userPitch) of SimpleTtsManager
GetOptimalPitch(platform, userPitch) ==
  IF userPitch # Undefined THEN userPitch
  ELSE CASE platform = "mac"     -> Num(100)
         [] platform = "windows" -> Num(95)
         [] platform = "android" -> Num(90)
         [] platform = "ios"     -> Num(100)
         [] platform = "linux"   -> Num(85)
         [] OTHER                -> Num(100)

\* getOptimalVolume(platform, userVolume) of SimpleTtsManager
GetOptimalVolume(platform, userVolume) ==
  IF userVolume # Undefined THEN userVolume
  ELSE CASE platform = "mac"     -> Num(90)
         [] platform = "windows" -> Num(85)
         [] platform = "android" -> Num(80)
         [] platform = "ios"     -> Num(90)
         [] platform = "linux"   -> Num(75)
         [] OTHER                -> Num(85)

\* the three assignments of an utterance's rate, pitch and volume, in order:
\* the first assignment that throws ends the call
Assigned(rate, pitch, volume) ==
  {[thrown |-> IF r.thrown # "none" THEN r.thrown
               ELSE IF p.thrown # "none" THEN p.thrown ELSE v.thrown,
    rate |-> r.value, pitch |-> p.value, volume |-> v.value] :
     r \in SetFloat(rate), p \in SetFloat(pitch), v \in SetFloat(volume)}

\* speak(text, options) of SimpleTtsManager (the platform-optimised
\* definition): the parameters of the utterance
SimpleSpeakParameters(platform, options) ==
  /\ calc.fn = "none" /\ calc.call = "SimpleTtsManager.speak"
  /\ UNCHANGED offCalc
  /\ \E a \in Assigned(
         MathMax(Num(10), MathMin(Num(1000),
                                  GetOptimalRate(platform, options.rate))),
         MathMax(Num(0), MathMin(Num(200),
                                 GetOptimalPitch(platform, options.pitch))),
         MathMax(Num(0), MathMin(Num(100),
                                 GetOptimalVolume(platform, options.volume)))) :
       calc' = [fn |-> "SimpleTtsManager.speak", platform |-> platform,
                options |-> options, out |-> a]

-----------------------------------------------------------------------------
(* Voices: a SpeechSynthesisVoice is its name, the substrings of the lowercased
   name the scoring functions look for (has), its lang, default and
   localService *)

Voice(name, has, lang, default, localService) ==
  [name |-> name, has |-> has, lang |-> lang, default |-> default,
   localService |-> localService]

\* the voices hosts offer, two of them alike but for the name
VoiceUniverse ==
  {Voice("Alex", {"alex"}, "en-US", TRUE, TRUE),
   Voice("Microsoft Zira", {"microsoft", "zira"}, "en-US", FALSE, TRUE),
   Voice("Google UK English", {"google uk english", "google"}, "en-GB",
         FALSE, FALSE),
   Voice("eSpeak", {"espeak"}, "en", FALSE, TRUE),
   Voice("Amelie", {}, "fr-FR", FALSE, TRUE),
   Voice("Thomas", {}, "fr-FR", FALSE, TRUE)}

\* voices in a host's list
MaxVoices == 3

\* the voice lists of the hosts: no voice twice
VoiceLists ==
  {vs \in UNION {[1..n -> VoiceUniverse] : n \in 0..MaxVoices} :
     \A i, j \in 1..Len(vs) : i # j => vs[i] # vs[j]}

\* the value of a voice that is not set
NoVoice == "unset"

\* lang.startsWith(prefix) for the prefixes the code asks about
LangStartsWith(lang, prefix) ==
  CASE prefix = "en-US" -> lang = "en-US"
    [] prefix = "en-GB" -> lang = "en-GB"
    [] prefix = "en"    -> lang \in {"en", "en-US", "en-GB"}

\* qualityRanking of getBestVoice(), lowercased, in the order of its entries
QualityRanking ==
  << <<"alex", 100>>, <<"samantha", 95>>, <<"victoria", 90>>,
     <<"allison", 85>>, <<"ava", 80>>, <<"zira", 85>>, <<"david", 80>>,
     <<"mark", 75>>, <<"hazel", 70>>, <<"aria", 65>>,
     <<"google us english", 90>>, <<"google uk english", 85>>,
     <<"microsoft", 60>>, <<"espeak", 30>> >>

\* the points of the first entry of the ranking the name includes
NamePoints(voice, ranking) ==
  LET hits == {i \in 1..Len(ranking) : ranking[i][1] \in voice.has}
  IN  IF hits = {} THEN 0
      ELSE ranking[CHOOSE i \in hits : \A j \in hits : i <= j][2]

\* points if the name includes one of the keys
IfHas(voice, keys, points) == IF voice.has \cap keys # {} THEN points ELSE 0

\* calculateVoiceScore(voice, qualityRanking) of UniversalTTSManager
CalculateVoiceScore(voice, ranking, platform) ==
  NamePoints(voice, ranking)
  + (CASE platform = "mac"     -> IfHas(voice, {"alex", "samantha"}, 20)
       [] platform = "windows" -> IfHas(voice, {"zira", "david"}, 15)
       [] platform = "android" -> IfHas(voice, {"google"}, 15)
       [] OTHER                -> 0)
  + IfHas(voice, {"neural"}, 25) + IfHas(voice, {"premium"}, 20)
  + IfHas(voice, {"enhanced"}, 15) + IfHas(voice, {"natural"}, 10)
  + (IF LangStartsWith(voice.lang, "en-US") THEN 10 ELSE 0)
  + (IF LangStartsWith(voice.lang, "en-GB") THEN 8 ELSE 0)
  + (IF LangStartsWith(voice.lang, "en") THEN 5 ELSE 0)
  + (IF voice.default THEN 5 ELSE 0)
  + (IF voice.localService THEN 3 ELSE 0)
  - IfHas(voice, {"robot", "synthetic"}, 20)
  - IfHas(voice, {"espeak"}, 15)

\* calculateVoiceQuality(voice) of SimpleTtsManager
CalculateVoiceQuality(voice, platform) ==
  (CASE platform = "mac" ->
          IfHas(voice, {"alex"}, 120) + IfHas(voice, {"samantha"}, 115)
          + IfHas(voice, {"victoria"}, 110) + IfHas(voice, {"allison"}, 105)
          + IfHas(voice, {"ava"}, 100) + IfHas(voice, {"tom"}, 95)
          + IfHas(voice, {"susan"}, 90)
     [] platform = "windows" ->
          IfHas(voice, {"zira"}, 110) + IfHas(voice, {"david"}, 105)
          + IfHas(voice, {"mark"}, 100) + IfHas(voice, {"hazel"}, 95)
          + IfHas(voice, {"aria"}, 90)
     [] platform = "android" ->
          IfHas(voice, {"google"}, 100) + IfHas(voice, {"female", "male"}, 80)
     [] OTHER -> 0)
  + IfHas(voice, {"neural"}, 100) + IfHas(voice, {"premium"}, 90)
  + IfHas(voice, {"enhanced"}, 80) + IfHas(voice, {"natural"}, 70)
  + IfHas(voice, {"high quality"}, 65)
  + IfHas(voice, {"google"}, 60) + IfHas(voice, {"microsoft"}, 50)
  + IfHas(voice, {"amazon"}, 40) + IfHas(voice, {"apple"}, 55)
  + (IF LangStartsWith(voice.lang, "en-US") THEN 35 ELSE 0)
  + (IF LangStartsWith(voice.lang, "en-GB") THEN 30 ELSE 0)
  + (IF LangStartsWith(voice.lang, "en") THEN 25 ELSE 0)
  + (IF voice.default THEN 20 ELSE 0)
  + (IF voice.localService THEN 10 ELSE 0)
  - IfHas(voice, {"robot", "synthetic"}, 50)
  - IfHas(voice, {"espeak"}, 30)

\* one step of a sort that is not stable: x goes before the elements that
\* compare equal to it
Insert_BeforeEqual(x, sorted) ==
  LET before == {i \in 1..Len(sorted) : sorted[i].score > x.score}
      n == Cardinality(before)
  IN  SubSeq(sorted, 1, n) \o <<x>> \o SubSeq(sorted, n + 1, Len(sorted))

\* Array.prototype.sort((a, b) => b.score - a.score) is stable: x is put into
\* a sorted sequence after the elements whose score is not smaller
Insert(x, sorted) ==
  LET before == {i \in 1..Len(sorted) : sorted[i].score >= x.score}
      n == Cardinality(before)
  IN  SubSeq(sorted, 1, n) \o <<x>> \o SubSeq(sorted, n + 1, Len(sorted))

RECURSIVE SortFrom(_, _, _)
SortFrom(items, i, sorted) ==
  IF i > Len(items) THEN sorted
  ELSE SortFrom(items, i + 1, Insert(items[i], sorted))

\* items.sort((a, b) => b.score - a.score)
SortByScore(items) == SortFrom(items, 1, <<>>)

\* voices.map(voice => ({voice, score})).sort(...).map(item => item.voice);
\* simple: the scoring is calculateVoiceQuality of SimpleTtsManager, else
\* calculateVoiceScore(voice, {}) of UniversalTTSManager
RankVoices(voices, platform, simple) ==
  LET items == [i \in 1..Len(voices) |->
                  [voice |-> voices[i],
                   score |-> IF simple
                               THEN CalculateVoiceQuality(voices[i], platform)
                               ELSE CalculateVoiceScore(voices[i], <<>>,
                                                        platform)]]
      sorted == SortByScore(items)
  IN  [i \in 1..Len(sorted) |-> sorted[i].voice]

\* getBestVoice() of UniversalTTSManager over the host's list
GetBestVoice(voices, platform) ==
  LET items == [i \in 1..Len(voices) |->
                  [voice |-> voices[i],
                   score |-> CalculateVoiceScore(voices[i], QualityRanking,
                                                 platform)]]
      sorted == SortByScore(items)
  IN  IF sorted = <<>> THEN NoVoice ELSE sorted[1].voice.name

\* getBestVoices() of UniversalTTSManager and of SimpleTtsManager
GetBestVoices(voices, platform, simple) ==
  /\ calc.fn = "none" /\ calc.call = "getBestVoices"
  /\ UNCHANGED offCalc
  /\ calc' = [fn |-> "getBestVoices", voices |-> voices,
              platform |-> platform, simple |-> simple,
              out |-> IF Len(voices) = 0 THEN <<>>
                      ELSE RankVoices(voices, platform, simple)]

\* the voice names a caller may pass as options.voice: those of the universe,
\* one that no host has, or none
VoiceOptions ==
  {v.name : v \in VoiceUniverse} \cup {"Nonexistent", "undefined"}

\* speakWithWordCallback(text, onWordStart, options) of UniversalTTSManager:
\* the voice and the parameters of the utterance
ConfigureUtterance(options, voices, platform) ==
  /\ calc.fn = "none" /\ calc.call = "speakWithWordCallback"
  /\ UNCHANGED offCalc
  /\ \E a \in Assigned(Or(options.rate, Num(90)), Or(options.pitch, Num(100)),
                       Or(options.volume, Num(85))) :
       calc' = [fn |-> "speakWithWordCallback", options |-> options,
                voices |-> voices, platform |-> platform,
                out |-> a,
                voice |-> GetBestVoice(voices, platform)]

\* seq.find(test), hits being the indices of the elements that pass the test
FindVoice(seq, hits) ==
  IF hits = {} THEN NoVoice
  ELSE seq[CHOOSE i \in hits : \A j \in hits : i <= j].name

\* a || b for voices
OrVoice(a, b) == IF a # NoVoice THEN a ELSE b

\* selectDefaultVoice() of TtsManager (unnamed/part_006): the name of
\* this.selectedVoice after voices were loaded
SelectDefaultVoice(available) ==
  LET all == 1..Len(available)
  IN  IF Len(available) = 0 THEN NoVoice
      ELSE OrVoice(FindVoice(available,
                     {i \in all : /\ available[i].localService
                                  /\ LangStartsWith(available[i].lang, "en")}),
           OrVoice(FindVoice(available,
                     {i \in all : LangStartsWith(available[i].lang, "en")}),
           OrVoice(FindVoice(available, {i \in all : available[i].default}),
                   available[1].name)))

\* speakWebSpeech(text, options) of TtsManager (unnamed/part_006): the voice
\* of the utterance; available: this.availableVoices, system: what
\* speechSynthesis.getVoices() returns now
SpeakWebSpeechVoice(voice, available, system) ==
  /\ calc.fn = "none" /\ calc.call = "speakWebSpeech"
  /\ UNCHANGED offCalc
  /\ calc' = [fn |-> "speakWebSpeech", voice |-> voice,
              available |-> available, system |-> system,
              selected |-> SelectDefaultVoice(available),
              out |-> IF voice # "undefined" /\ Len(available) > 0
                        THEN FindVoice(available,
                               {i \in 1..Len(available) :
                                  available[i].name = voice})
                      ELSE IF SelectDefaultVoice(available) # NoVoice
                        THEN SelectDefaultVoice(available)
                      ELSE IF Len(system) > 0 THEN system[1].name
                      ELSE NoVoice]

\* this.providers as the probes of initializeProviders() can leave it: the
\* probes of webSpeech and speechSynthesis mark a provider available only
\* with the voices they found, initializeCloudTts() always marks cloudTts
ProbedProviders ==
  {[responsiveVoice |-> [available |-> r, voices |-> 0, priority |-> 1],
    webSpeech       |-> [available |-> w > 0, voices |-> w, priority |-> 2],
    speechSynthesis |-> [available |-> e > 0, voices |-> e, priority |-> 3],
    cloudTts        |-> [available |-> TRUE, voices |-> 0, priority |-> 4]] :
     r \in BOOLEAN, w \in 0..MaxVoices, e \in 0..MaxVoices}

\* selectBestProvider() of UniversalTtsManager after the probes
SelectBest(providers) ==
  /\ calc.fn = "none" /\ calc.call = "selectBestProvider"
  /\ UNCHANGED offCalc
  /\ calc' = [fn |-> "selectBestProvider", providers |-> providers,
              out |-> SelectBestProvider(providers)]

\* navigator.platform of the hosts, with the substrings among linux, win and
\* mac that its lowercase form includes
NavigatorPlatforms ==
  {[name |-> "Linux x86_64", has |-> {"linux"}],
   [name |-> "Linux armv8l", has |-> {"linux"}],
   [name |-> "Win32", has |-> {"win"}],
   [name |-> "MacIntel", has |-> {"mac"}],
   [name |-> "iPhone", has |-> {}],
   [name |-> "FreeBSD amd64", has |-> {}]}

\* the guidance showSystemSpecificGuidance() composes: the branch taken and
\* the remediation paths its message lists
Guidance(platform) ==
  IF "linux" \in platform.has
    THEN [branch |-> "linux",
          paths |-> {"install voices", "browser extension",
                     "copy text to online service", "mobile"}]
  ELSE IF "win" \in platform.has
    THEN [branch |-> "windows",
          paths |-> {"system settings", "browser extension",
                     "copy text to online service"}]
  ELSE IF "mac" \in platform.has
    THEN [branch |-> "mac",
          paths |-> {"system settings", "reader mode", "browser extension"}]
  ELSE [branch |-> "other",
        paths |-> {"browser extension", "reader mode", "online service",
                   "mobile"}]

\* showSystemSpecificGuidance() of TtsManagerFixed; handler: onError is set
ShowSystemSpecificGuidance(platform, handler) ==
  /\ calc.fn = "none" /\ calc.call = "showSystemSpecificGuidance"
  /\ UNCHANGED offCalc
  /\ calc' = [fn |-> "showSystemSpecificGuidance", platform |-> platform,
              handler |-> handler,
              onError |-> IF handler THEN <<Guidance(platform)>> ELSE <<>>]

\* the managers that clamp the parameters in speak itself: SimpleTtsManager
\* (first definition), UniversalTtsManager (speakWithWebSpeech) and TtsManager
\* of unnamed/part_006 (speakWebSpeech)
ClampingManagers == {"SimpleTtsManager", "UniversalTtsManager", "TtsManager"}

\* the options given to them
ClampOptions ==
  [rate : {Undefined, Num(10), Num(100), Num(1000), Num(2000)},
   pitch : {Undefined, Num(0), Num(100), Num(200), Num(300)},
   volume : {Undefined, Num(0), Num(50), Num(100), Num(150)}]

\* isNaN(v) ? 1.0 : v of speakWebSpeech in unnamed/part_006; the two other
\* managers pass the value on
NaNGuard(manager, v) ==
  IF manager = "TtsManager" /\ v.k # "num" THEN Num(100) ELSE v

\* Math.max(lo, Math.min(hi, options.x || 1.0)), with the isNaN guard of
\* unnamed/part_006 before the clamp
Clamp(manager, lo, hi, v) ==
  MathMax(Num(lo), MathMin(Num(hi), NaNGuard(manager, Or(v, Num(100)))))

\* the three assignments of rate, pitch and volume in speak
ClampParameters(manager, options) ==
  /\ calc.fn = "none" /\ calc.call = "clampParameters"
  /\ UNCHANGED offCalc
  /\ \E a \in Assigned(Clamp(manager, 10, 1000, options.rate),
                       Clamp(manager, 0, 200, options.pitch),
                       Clamp(manager, 0, 100, options.volume)) :
       calc' = [fn |-> "clampParameters", manager |-> manager,
                options |-> options, out |-> a]

\* the options a caller passes
Options ==
  [rate : OptionValues, pitch : {Undefined, Num(300)},
   volume : {Undefined, Num(150)}, voice : VoiceOptions]

-----------------------------------------------------------------------------
(* Reading progress in localStorage: saveProgress() and loadProgress() of
   AudiobookMode, saveReadingProgress() and loadReadingProgress() of the PDF
   viewer *)

\* the documents of the library
Urls == {"a.pdf", "b.pdf"}

\* localStorage of a browser that has stored nothing; an item is <<>> (getItem
\* gives null) or <<text>>. progress: the object the last saveProgress() handed
\* to JSON.stringify, <<>> before any
NewStorage ==
  [audiobookProgress |-> <<>>, pdfReadingProgress |-> <<>>, progress |-> <<>>]

\* the script of the viewer for document pdfUrl before the document is loaded
NewViewer(pdfUrl) == [pdfUrl |-> pdfUrl, currentPageNum |-> 1, totalPages |-> 0]

\* JSON text of a value: a number prints its digits, a boolean true or false,
\* null prints null, a string is quoted
JsonNumber(n) == <<"number", n>>
JsonBoolean(b) == IF b THEN <<"true">> ELSE <<"false">>
JsonString(str) == IF str = "null" THEN <<"null">> ELSE <<"string", str>>

\* JSON.stringify of the settings object
StringifySettings(settings) ==
  [speed |-> JsonNumber(settings.speed),
   pitch |-> JsonNumber(settings.pitch),
   volume |-> JsonNumber(settings.volume),
   autoAdvance |-> JsonBoolean(settings.autoAdvance),
   voice |-> JsonString(settings.voice)]

\* JSON.parse of one value
ParseValue(text) ==
  IF text[1] = "number" THEN text[2]
  ELSE IF text[1] = "true" THEN TRUE
  ELSE IF text[1] = "false" THEN FALSE
  ELSE IF text[1] = "null" THEN "null"
  ELSE text[2]

\* JSON.parse of an object: every member parsed
ParseObject(text) == [key \in DOMAIN text |-> ParseValue(text[key])]

\* a loadProgress() that takes no page from the record
OrOne_Always(currentPage) == 1

\* progress.currentPage || 1
OrOne(currentPage) == IF currentPage = 0 THEN 1 ELSE currentPage

\* saveProgress() of instance b (the timestamp, which nothing reads, is left
\* out)
SaveProgress(b, st) ==
  LET progress == [pdfUrl |-> b.pdfUrl, currentPage |-> b.currentPage,
                   settings |-> b.settings]
  IN  [st EXCEPT
         !.audiobookProgress =
            << [pdfUrl |-> JsonString(progress.pdfUrl),
                currentPage |-> JsonNumber(progress.currentPage),
                settings |-> StringifySettings(progress.settings)] >>,
         !.progress = <<progress>>]

\* JSON.parse(saved) in loadProgress()
ParseProgress(saved) ==
  [pdfUrl |-> ParseValue(saved.pdfUrl),
   currentPage |-> ParseValue(saved.currentPage),
   settings |-> ParseObject(saved.settings)]

\* loadProgress() of instance b
LoadProgress(b, st) ==
  LET saved == st.audiobookProgress
  IN  IF saved # <<>> /\ ParseProgress(saved[1]).pdfUrl = b.pdfUrl
        THEN LET progress == ParseProgress(saved[1])
             IN  [b EXCEPT !.currentPage = OrOne(progress.currentPage),
                           !.settings = Spread(@, progress.settings),
                           !.returned = <<progress>>]
        ELSE [b EXCEPT !.returned = <<>>]

\* saveReadingProgress() of the viewer v
SaveReadingProgress(v, st) ==
  [st EXCEPT !.pdfReadingProgress =
     << [pdfUrl |-> JsonString(v.pdfUrl),
         currentPage |-> JsonNumber(v.currentPageNum)] >>]

\* loadReadingProgress() of the viewer for pdfUrl
LoadReadingProgress(pdfUrl, st) ==
  LET saved == st.pdfReadingProgress
  IN  IF saved # <<>> /\ ParseValue(saved[1].pdfUrl) = pdfUrl
        THEN ParseValue(saved[1].currentPage)
        ELSE 1

\* new AudiobookMode(pdfUrl, pdfContainer): the page is opened on pdfUrl
ANew(pdfUrl) ==
  /\ UNCHANGED offProgress
  /\ book' = NewBook(pdfUrl)
  /\ UNCHANGED <<storage, viewer>>

ASaveProgress ==
  /\ UNCHANGED offProgress
  /\ book.pdfUrl \in Urls
  /\ storage' = SaveProgress(book, storage)
  /\ UNCHANGED <<book, viewer>>

ALoadProgress ==
  /\ UNCHANGED offProgress
  /\ book.pdfUrl \in Urls
  /\ book' = LoadProgress(book, storage)
  /\ UNCHANGED <<storage, viewer>>

\* the viewer's script on a page opened on pdfUrl: the document is loaded,
\* the saved page taken if there is one, the page rendered and
\* renderPage() saves the progress
VOpen(pdfUrl) ==
  /\ UNCHANGED offProgress
  /\ LET savedPage == LoadReadingProgress(pdfUrl, storage)
         opened == [NewViewer(pdfUrl) EXCEPT !.totalPages = MaxPages]
         shown == IF /\ savedPage # 0
                     /\ savedPage # opened.currentPageNum
                     /\ savedPage <= opened.totalPages
                    THEN [opened EXCEPT !.currentPageNum = savedPage]
                    ELSE opened
     IN  /\ viewer' = shown
         /\ storage' = SaveReadingProgress(shown, storage)
  /\ UNCHANGED book

\* renderPage(num) of the viewer, from one of its page controls
VRenderPage(num) ==
  /\ UNCHANGED offProgress
  /\ viewer.pdfUrl \in Urls
  /\ num <= viewer.totalPages
  /\ LET shown == [viewer EXCEPT !.currentPageNum = num]
     IN  /\ viewer' = shown
         /\ storage' = SaveReadingProgress(shown, storage)
  /\ UNCHANGED book

-----------------------------------------------------------------------------
(* CloudTtsManager of components/CloudTtsManager.js *)

\* the sources of sound a page may create before it is left
MaxSources == 3

\* this.providers after registerProviders(), by name
CompProviders ==
  <<"Free Cloud TTS", "Alternative Cloud TTS", "Browser TTS (if available)",
    "Copy to External Service">>

NoAudio == 0

\* the constructor
NewComp ==
  [isInitialized |-> FALSE, currentProvider |-> NoProvider,
   currentAudio |-> NoAudio, isPlaying |-> FALSE]

\* the sources of sound the manager has created, in order of creation: the
\* Audio elements of the cloud providers and the utterances handed to
\* speechSynthesis
Source(kind, state) == [kind |-> kind, state |-> state]

\* a source that sounds or will sound without a further call
Active(source) == source.state \in {"loading", "playing", "queued"}

CompStill == UNCHANGED <<offComp, synth, utter, obs, calls>>

\* initialize(); first: the first provider whose test() gives true (the tests
\* before it failed or threw; that of the copy helper always gives true)
CompInitialize(first) ==
  /\ CompStill
  /\ ~comp.isInitialized
  /\ comp' = [comp EXCEPT !.currentProvider = first, !.isInitialized = TRUE]
  /\ UNCHANGED audio

\* speakFreeTTS(text, options) and speakAlternativeTTS(text, options);
\* allowed: audio.play() is let through by the browser, else its promise
\* rejects and the method throws
SpeakAudio(allowed) ==
  /\ audio' = Append(audio, Source("audio",
                                   IF allowed THEN "loading" ELSE "blocked"))
  /\ comp' = [comp EXCEPT !.currentAudio = Len(audio) + 1]

\* speakBrowserTTS(text, options): speechSynthesis.speak(utterance)
SpeakBrowserTTS ==
  /\ audio' = Append(audio, Source("utterance", "queued"))
  /\ UNCHANGED comp

\* speakCopyHelper(text, options): the text goes to the clipboard and the
\* modal is shown
SpeakCopyHelper == UNCHANGED <<comp, audio>>

\* speak(text, options) of an initialised manager
CompSpeak(allowed) ==
  /\ CompStill
  /\ comp.isInitialized /\ comp.currentProvider # NoProvider
  /\ Len(audio) < MaxSources
  /\ IF comp.currentProvider \in {1, 2} THEN SpeakAudio(allowed)
     ELSE IF comp.currentProvider = 3 THEN SpeakBrowserTTS
     ELSE SpeakCopyHelper

\* stopAudio()
StopAudio ==
  IF comp.currentAudio # NoAudio
    THEN /\ audio' = [audio EXCEPT ![comp.currentAudio] =
                        IF Active(@) THEN Source("audio", "stopped") ELSE @]
         /\ comp' = [comp EXCEPT !.isPlaying = FALSE,
                                 !.currentAudio = NoAudio]
    ELSE UNCHANGED <<comp, audio>>

\* stopBrowserTTS(): speechSynthesis.cancel()
StopBrowserTTS ==
  /\ audio' = [i \in DOMAIN audio |->
                 IF audio[i].kind = "utterance" /\ Active(audio[i])
                   THEN Source("utterance", "cancelled") ELSE audio[i]]
  /\ comp' = [comp EXCEPT !.isPlaying = FALSE]

\* stop()
CompStop ==
  /\ CompStill
  /\ IF comp.currentProvider \in {1, 2} THEN StopAudio
     ELSE IF comp.currentProvider = 3 THEN StopBrowserTTS
     ELSE UNCHANGED <<comp, audio>>

\* audio.onplay of Audio element i
AudioPlay(i) ==
  /\ CompStill
  /\ audio[i] = Source("audio", "loading")
  /\ audio' = [audio EXCEPT ![i].state = "playing"]
  /\ comp' = [comp EXCEPT !.isPlaying = TRUE]

\* audio.onended of Audio element i
AudioEnded(i) ==
  /\ CompStill
  /\ audio[i] = Source("audio", "playing")
  /\ audio' = [audio EXCEPT ![i].state = "ended"]
  /\ comp' = [comp EXCEPT !.isPlaying = FALSE, !.currentAudio = NoAudio]

\* audio.onerror of Audio element i: the cloud gave no sound
AudioError(i) ==
  /\ CompStill
  /\ audio[i] = Source("audio", "loading")
  /\ audio' = [audio EXCEPT ![i].state = "failed"]
  /\ comp' = [comp EXCEPT !.isPlaying = FALSE, !.currentAudio = NoAudio]

\* utterance.onstart of utterance i: the engine speaks its queue in order
UtteranceStart(i) ==
  /\ CompStill
  /\ audio[i] = Source("utterance", "queued")
  /\ \A j \in DOMAIN audio :
       /\ audio[j] # Source("utterance", "playing")
       /\ j < i => audio[j] # Source("utterance", "queued")
  /\ audio' = [audio EXCEPT ![i].state = "playing"]
  /\ comp' = [comp EXCEPT !.isPlaying = TRUE]

\* utterance.onend (ended = TRUE) and utterance.onerror of utterance i
UtteranceDone(i, ended) ==
  /\ CompStill
  /\ audio[i] = Source("utterance", "playing")
  /\ audio' = [audio EXCEPT ![i].state = IF ended THEN "ended" ELSE "failed"]
  /\ comp' = [comp EXCEPT !.isPlaying = FALSE]

-----------------------------------------------------------------------------
(* SimpleTtsManager of public/SimpleTtsManager.js (the platform-optimised
   definition) on a Linux host: speak() arms its two start-fallback timers *)

\* the constructor; h: the page assigns onStatusChange
SimpleNew(h) ==
  [isInitialized |-> FALSE, isPlaying |-> FALSE, isPaused |-> FALSE,
   currentUtterance |-> NoUtterance, onStatusChange |-> h]

\* this.onStatusChange?.({ isPlaying, isPaused })
SimpleStatus(playing, paused) ==
  IF sm.onStatusChange THEN << <<"onStatusChange", playing, paused>> >>
                       ELSE <<>>

\* the utterance objects a step starts from: those the engine, the manager,
\* a pending promise or an armed timer still refers to
SimpleKept ==
  [u \in {v \in DOMAIN utter :
            \/ Live(v) \/ Pending(v)
            \/ v \in Range(synth.queue)
            \/ \E i \in 1..Len(synth.events) : synth.events[i][1] = v
            \/ v = sm.currentUtterance
            \/ utter[v].timeoutId \/ utter[v].fallback} |-> utter[u]]

SimpleInit ==
  /\ \E h \in BOOLEAN : sm = SimpleNew(h)
  /\ synth \in {[exists |-> x, voices |-> 1, responsive |-> TRUE,
                 queue |-> <<>>, speaking |-> FALSE, paused |-> FALSE,
                 events |-> <<>>] : x \in BOOLEAN}
  /\ utter = <<>>
  /\ obs = Quiet
  /\ calls = 0

\* initialize() run to its return
SimpleInitialize ==
  /\ UNCHANGED offSimple
  /\ ~sm.isInitialized
  /\ sm' = IF synth.exists THEN [sm EXCEPT !.isInitialized = TRUE] ELSE sm
  /\ obs' = Quiet
  /\ utter' = SimpleKept
  /\ UNCHANGED <<synth, calls>>

\* stop() on manager m, engine sy and utterance objects ut
SimpleStopOn(m, sy, ut, k) ==
  IF m.isPlaying
    THEN [sm    |-> [m EXCEPT !.isPlaying = FALSE, !.isPaused = FALSE,
                              !.currentUtterance = NoUtterance],
          synth |-> SynthCancel(sy, k),
          utter |-> Cancelled(ut, sy.queue),
          emitted |-> SimpleStatus(FALSE, FALSE)]
    ELSE [sm |-> m, synth |-> sy, utter |-> ut, emitted |-> <<>>]

\* speak(text) on Linux: stop(), the utterance with its handlers, the start
\* timeout of 1000 ms, speechSynthesis.speak() and the fallback timer of
\* 500 ms. The utterances are numbered in the order of the calls
SimpleSpeak(text, k) ==
  /\ UNCHANGED offSimple
  /\ calls < MaxCalls
  /\ calls' = calls + 1
  /\ IF ~sm.isInitialized
       THEN /\ obs' = Out(<<>>, "TTS not initialized")
            /\ utter' = SimpleKept
            /\ UNCHANGED <<sm, synth>>
     ELSE IF IsBlank(text)
       THEN /\ obs' = Out(<<>>, "No text provided for speech")
            /\ utter' = SimpleKept
            /\ UNCHANGED <<sm, synth>>
     ELSE LET s == SimpleStopOn(sm, synth, SimpleKept, k)
              u == calls + 1
          IN  /\ sm' = [s.sm EXCEPT !.currentUtterance = u]
              /\ synth' = SynthSpeak(s.synth, u)
              /\ utter' = [v \in DOMAIN s.utter \cup {u} |->
                             IF v = u
                               THEN [text |-> text, state |-> "queued",
                                     promise |-> "pending",
                                     hasStarted |-> FALSE,
                                     timeoutId |-> TRUE, fallback |-> TRUE]
                               ELSE s.utter[v]]
              /\ obs' = Out(s.emitted, "none")

\* pause()
SimplePause ==
  /\ UNCHANGED offSimple
  /\ calls < MaxCalls
  /\ calls' = calls + 1
  /\ IF sm.isPlaying /\ ~sm.isPaused
       THEN /\ sm' = [sm EXCEPT !.isPaused = TRUE]
            /\ synth' = [synth EXCEPT !.paused = TRUE]
            /\ obs' = Out(SimpleStatus(TRUE, TRUE), "none")
       ELSE /\ obs' = Quiet
            /\ UNCHANGED <<sm, synth>>
  /\ utter' = SimpleKept

\* resume()
SimpleResume ==
  /\ UNCHANGED offSimple
  /\ calls < MaxCalls
  /\ calls' = calls + 1
  /\ IF sm.isPaused
       THEN /\ sm' = [sm EXCEPT !.isPaused = FALSE]
            /\ synth' = [synth EXCEPT !.paused = FALSE]
            /\ obs' = Out(SimpleStatus(TRUE, FALSE), "none")
       ELSE /\ obs' = Quiet
            /\ UNCHANGED <<sm, synth>>
  /\ utter' = SimpleKept

\* stop()
SimpleStop(k) ==
  /\ UNCHANGED offSimple
  /\ calls < MaxCalls
  /\ calls' = calls + 1
  /\ LET s == SimpleStopOn(sm, synth, SimpleKept, k)
     IN  /\ sm' = s.sm
         /\ synth' = s.synth
         /\ utter' = s.utter
         /\ obs' = Out(s.emitted, "none")

\* the manager after the assignments of a handler that keeps isPaused
MarkPlaying_KeepsPaused(m, playing) == [m EXCEPT !.isPlaying = playing]

\* this.isPlaying = playing; this.isPaused = false, as onstart, onend,
\* onerror and the start timeout assign them
MarkPlaying(m, playing) ==
  [m EXCEPT !.isPlaying = playing, !.isPaused = FALSE]

\* utterance.onstart of utterance u
SimpleOnStart(u) ==
  /\ sm' = MarkPlaying(sm, TRUE)
  /\ utter' = [SimpleKept EXCEPT
                 ![u].state = "speaking",
                 ![u].timeoutId = FALSE,
                 ![u].hasStarted = TRUE,
                 ![u].promise = IF @ = "pending" THEN "resolved" ELSE @]
  /\ obs' = Out(SimpleStatus(TRUE, FALSE), "none")

\* utterance.onend of utterance u, which then is in the given state
SimpleOnEnd(u, state) ==
  /\ sm' = MarkPlaying(sm, FALSE)
  /\ utter' = [SimpleKept EXCEPT ![u].state = state,
                                 ![u].timeoutId = FALSE]
  /\ obs' = Out(SimpleStatus(FALSE, FALSE) \o << <<"onEnd">> >>, "none")

\* utterance.onerror of utterance u
SimpleOnError(u, state) ==
  /\ sm' = MarkPlaying(sm, FALSE)
  /\ utter' = [SimpleKept EXCEPT
                 ![u].state = state,
                 ![u].timeoutId = FALSE,
                 ![u].promise = IF @ = "pending" THEN "rejected" ELSE @]
  /\ obs' = Out(SimpleStatus(FALSE, FALSE), "none")

\* the event owed to a cancelled utterance reaches its handler
SimpleCancelEvent ==
  /\ UNCHANGED offSimple
  /\ synth.events # <<>>
  /\ LET u == Head(synth.events)[1]
     IN  IF Head(synth.events)[2] = "error"
           THEN SimpleOnError(u, utter[u].state)
           ELSE SimpleOnEnd(u, utter[u].state)
  /\ synth' = [synth EXCEPT !.events = Tail(@)]
  /\ UNCHANGED calls

\* the engine begins to speak the head of its queue
SimpleEngineStart ==
  /\ UNCHANGED offSimple
  /\ synth.events = <<>>
  /\ synth.queue # <<>>
  /\ ~synth.speaking
  /\ ~synth.paused
  /\ synth' = [synth EXCEPT !.speaking = TRUE]
  /\ SimpleOnStart(Head(synth.queue))
  /\ UNCHANGED calls

\* the engine finishes the utterance it is speaking
SimpleEngineEnd ==
  /\ UNCHANGED offSimple
  /\ synth.events = <<>>
  /\ synth.queue # <<>>
  /\ synth.speaking
  /\ ~synth.paused
  /\ synth' = [synth EXCEPT !.queue = Tail(@), !.speaking = FALSE]
  /\ SimpleOnEnd(Head(synth.queue), "ended")
  /\ UNCHANGED calls

\* the engine fails on the head of its queue
SimpleEngineError ==
  /\ UNCHANGED offSimple
  /\ synth.events = <<>>
  /\ synth.queue # <<>>
  /\ synth' = [synth EXCEPT !.queue = Tail(@), !.speaking = FALSE]
  /\ SimpleOnError(Head(synth.queue), "errored")
  /\ UNCHANGED calls

\* the fallback timer of 500 ms of utterance u runs; no handler clears it
SimpleFallbackTimer(u) ==
  /\ UNCHANGED offSimple
  /\ u \in DOMAIN utter
  /\ utter[u].fallback
  /\ \A v \in DOMAIN utter : v < u => ~utter[v].fallback
  /\ IF ~utter[u].hasStarted
       THEN /\ sm' = [sm EXCEPT !.isPlaying = TRUE]
            /\ utter' = [SimpleKept EXCEPT
                           ![u].fallback = FALSE,
                           ![u].hasStarted = TRUE,
                           ![u].promise =
                              IF @ = "pending" THEN "resolved" ELSE @]
            /\ obs' = Out(SimpleStatus(TRUE, FALSE), "none")
       ELSE /\ utter' = [SimpleKept EXCEPT ![u].fallback = FALSE]
            /\ obs' = Quiet
            /\ UNCHANGED sm
  /\ UNCHANGED <<synth, calls>>

\* the start timeout of 1000 ms of utterance u runs, after the fallback timer
\* of the same call
SimpleStartTimeout(u) ==
  /\ UNCHANGED offSimple
  /\ u \in DOMAIN utter
  /\ utter[u].timeoutId
  /\ ~utter[u].fallback
  /\ \A v \in DOMAIN utter : v < u => ~utter[v].timeoutId
  /\ IF ~utter[u].hasStarted
       THEN /\ sm' = MarkPlaying(sm, TRUE)
            /\ utter' = [SimpleKept EXCEPT
                           ![u].timeoutId = FALSE,
                           ![u].hasStarted = TRUE,
                           ![u].promise =
                              IF @ = "pending" THEN "resolved" ELSE @]
            /\ obs' = Out(SimpleStatus(TRUE, FALSE), "none")
       ELSE /\ utter' = [SimpleKept EXCEPT ![u].timeoutId = FALSE]
            /\ obs' = Quiet
            /\ UNCHANGED sm
  /\ UNCHANGED <<synth, calls>>

-----------------------------------------------------------------------------
(* TtsManager of unnamed/part_006 on a host whose voices are there at the
   first read *)

\* the constructor; pc: initialize() has not been called ("new"), awaits
\* testBasicSpeech() ("testing") or has resolved ("ready"); testTimer: the
\* timeout of testBasicSpeech() is armed; modal: the text of the speak() call
\* whose interaction modal is in the page
EnhancedNew ==
  [isInitialized |-> FALSE, isPlaying |-> FALSE, isPaused |-> FALSE,
   currentUtterance |-> NoUtterance, userInteractionRequired |-> TRUE,
   pc |-> "new", testTimer |-> FALSE, modal |-> <<>>]

\* the utterance objects a step starts from
EnhancedKept ==
  [u \in {v \in DOMAIN utter :
            \/ Live(v) \/ Pending(v)
            \/ v \in Range(synth.queue)
            \/ \E i \in 1..Len(synth.events) : synth.events[i][1] = v
            \/ v = enh.currentUtterance} |-> utter[u]]

EnhancedInit ==
  /\ enh = EnhancedNew
  /\ synth \in {[exists |-> x, voices |-> 1, responsive |-> TRUE,
                 queue |-> <<>>, speaking |-> FALSE, paused |-> FALSE,
                 events |-> <<>>] : x \in BOOLEAN}
  /\ utter = <<>>
  /\ obs = Quiet
  /\ calls = 0

\* an utterance object; test: it is the utterance of testBasicSpeech();
\* afterInit: it was made when initialize() had resolved
EnhancedUtterance(text, test) ==
  [text |-> text, state |-> "queued", promise |-> "pending", test |-> test,
   afterInit |-> enh.pc = "ready"]

\* initialize() up to its await of testBasicSpeech(): the voices are read,
\* isInitialized is set, the test utterance is handed to the engine and the
\* timeout of 2000 ms is armed
EnhancedInitialize ==
  /\ UNCHANGED offEnhanced
  /\ enh.pc = "new"
  /\ IF ~synth.exists
       THEN /\ enh' = [enh EXCEPT !.pc = "failed"]
            /\ utter' = EnhancedKept
            /\ obs' = Out(<< <<"showNoSpeechSynthesisError">> >>, "none")
            /\ UNCHANGED synth
       ELSE LET u == FreshId(EnhancedKept)
            IN  /\ enh' = [enh EXCEPT !.isInitialized = TRUE,
                                      !.pc = "testing",
                                      !.testTimer = TRUE]
                /\ synth' = SynthSpeak(synth, u)
                /\ utter' = [v \in DOMAIN EnhancedKept \cup {u} |->
                               IF v = u THEN EnhancedUtterance(<<>>, TRUE)
                                        ELSE EnhancedKept[v]]
                /\ obs' = Quiet
  /\ UNCHANGED calls

\* resolve(...) of testBasicSpeech(): the first call lets initialize() go on
\* to onSuccess and return true
TestResolved(m) == IF m.pc = "testing" THEN [m EXCEPT !.pc = "ready"] ELSE m

\* what TestResolved reports
TestReported(m) ==
  IF m.pc = "testing" THEN << <<"onSuccess">> >> ELSE <<>>

\* the timeout of 2000 ms of testBasicSpeech() runs: speechSynthesis.cancel()
\* and resolve(false); no handler of the test utterance clears it
EnhancedTestTimeout(k) ==
  /\ UNCHANGED offEnhanced
  /\ enh.testTimer
  /\ enh' = [TestResolved(enh) EXCEPT !.testTimer = FALSE]
  /\ synth' = SynthCancel(synth, k)
  /\ utter' = Cancelled(EnhancedKept, synth.queue)
  /\ obs' = Out(TestReported(enh), "none")
  /\ UNCHANGED calls

\* stop() on manager m, engine sy and utterance objects ut
EnhancedStopOn(m, sy, ut, k) ==
  IF sy.exists
    THEN [enh   |-> [m EXCEPT !.isPlaying = FALSE, !.isPaused = FALSE,
                              !.currentUtterance = NoUtterance],
          synth |-> SynthCancel(sy, k),
          utter |-> Cancelled(ut, sy.queue)]
    ELSE [enh |-> m, synth |-> sy, utter |-> ut]

\* speakWebSpeech(text) on manager m
SpeakWebSpeech(m, text, k) ==
  LET s == EnhancedStopOn(m, synth, EnhancedKept, k)
      u == FreshId(EnhancedKept)
  IN  /\ enh' = [s.enh EXCEPT !.currentUtterance = u]
      /\ synth' = SynthSpeak(s.synth, u)
      /\ utter' = [v \in DOMAIN s.utter \cup {u} |->
                     IF v = u THEN EnhancedUtterance(text, FALSE)
                              ELSE s.utter[v]]
      /\ obs' = Quiet

\* speak(text): the guards, then the interaction modal on the first use, else
\* speakWebSpeech
EnhancedSpeak(text, k) ==
  /\ UNCHANGED offEnhanced
  /\ calls < MaxCalls
  /\ calls' = calls + 1
  /\ IF ~enh.isInitialized
       THEN /\ obs' = Out(<<>>, "TTS not initialized")
            /\ utter' = EnhancedKept
            /\ UNCHANGED <<enh, synth>>
     ELSE IF enh.userInteractionRequired
       THEN /\ enh' = [enh EXCEPT !.modal = <<text>>]
            /\ utter' = EnhancedKept
            /\ obs' = Quiet
            /\ UNCHANGED synth
     ELSE SpeakWebSpeech(enh, text, k)

\* the user clicks 'Enable Audio Reading': the waiting speak() goes on to
\* speakWebSpeech
EnhancedEnableClick(k) ==
  /\ UNCHANGED offEnhanced
  /\ enh.modal # <<>>
  /\ SpeakWebSpeech([enh EXCEPT !.userInteractionRequired = FALSE,
                                !.modal = <<>>], enh.modal[1], k)
  /\ UNCHANGED calls

\* stop()
EnhancedStop(k) ==
  /\ UNCHANGED offEnhanced
  /\ calls < MaxCalls
  /\ calls' = calls + 1
  /\ LET s == EnhancedStopOn(enh, synth, EnhancedKept, k)
     IN  /\ enh' = s.enh
         /\ synth' = s.synth
         /\ utter' = s.utter
  /\ obs' = Quiet

\* onstart of utterance u; the test utterance cancels what the engine holds
EnhancedOnStart(u, k) ==
  IF utter[u].test
    THEN /\ enh' = TestResolved(enh)
         /\ synth' = SynthCancel([synth EXCEPT !.speaking = TRUE], k)
         /\ utter' = Cancelled(EnhancedKept, synth.queue)
         /\ obs' = Out(TestReported(enh), "none")
    ELSE /\ enh' = [enh EXCEPT !.isPlaying = TRUE, !.isPaused = FALSE]
         /\ synth' = [synth EXCEPT !.speaking = TRUE]
         /\ utter' = [EnhancedKept EXCEPT
                        ![u].state = "speaking",
                        ![u].promise = IF @ = "pending" THEN "resolved" ELSE @]
         /\ obs' = Out(<< <<"onStatusChange", TRUE>> >>, "none")

\* onend of utterance u, which then is in the given state
EnhancedOnEnd(u, state) ==
  /\ utter' = [EnhancedKept EXCEPT ![u].state = state]
  /\ IF utter[u].test
       THEN /\ enh' = TestResolved(enh)
            /\ obs' = Out(TestReported(enh), "none")
       ELSE /\ enh' = [enh EXCEPT !.isPlaying = FALSE, !.isPaused = FALSE,
                                  !.currentUtterance = NoUtterance]
            /\ obs' = Out(<< <<"onStatusChange", FALSE>> >>, "none")

\* onerror of utterance u
EnhancedOnError(u, state) ==
  /\ utter' = [EnhancedKept EXCEPT
                 ![u].state = state,
                 ![u].promise =
                    IF @ = "pending" /\ ~utter[u].test THEN "rejected" ELSE @]
  /\ IF utter[u].test
       THEN /\ enh' = TestResolved(enh)
            /\ obs' = Out(TestReported(enh), "none")
       ELSE /\ enh' = [enh EXCEPT !.isPlaying = FALSE, !.isPaused = FALSE,
                                  !.currentUtterance = NoUtterance]
            /\ obs' = Out(<< <<"onError">> >>, "none")

\* the event owed to a cancelled utterance reaches its handler
EnhancedCancelEvent ==
  /\ UNCHANGED offEnhanced
  /\ synth.events # <<>>
  /\ LET u == Head(synth.events)[1]
     IN  IF Head(synth.events)[2] = "error"
           THEN EnhancedOnError(u, utter[u].state)
           ELSE EnhancedOnEnd(u, utter[u].state)
  /\ synth' = [synth EXCEPT !.events = Tail(@)]
  /\ UNCHANGED calls

\* the engine begins to speak the head of its queue
EnhancedEngineStart(k) ==
  /\ UNCHANGED offEnhanced
  /\ synth.events = <<>>
  /\ synth.queue # <<>>
  /\ ~synth.speaking
  /\ EnhancedOnStart(Head(synth.queue), k)
  /\ UNCHANGED calls

\* the engine finishes the utterance it is speaking
EnhancedEngineEnd ==
  /\ UNCHANGED offEnhanced
  /\ synth.events = <<>>
  /\ synth.queue # <<>>
  /\ synth.speaking
  /\ synth' = [synth EXCEPT !.queue = Tail(@), !.speaking = FALSE]
  /\ EnhancedOnEnd(Head(synth.queue), "ended")
  /\ UNCHANGED calls

\* the engine fails on the head of its queue
EnhancedEngineError ==
  /\ UNCHANGED offEnhanced
  /\ synth.events = <<>>
  /\ synth.queue # <<>>
  /\ synth' = [synth EXCEPT !.queue = Tail(@), !.speaking = FALSE]
  /\ EnhancedOnError(Head(synth.queue), "errored")
  /\ UNCHANGED calls

-----------------------------------------------------------------------------
(* The script of components/PdfViewer.astro: its initialization *)

\* the script's variables when its top level starts on a document whose
\* readyState is as given; runs: the calls of initializePdfViewer() and the
\* timers that will make them
ScriptNew(readyState) ==
  [readyState |-> readyState, initializationAttempted |-> FALSE,
   isInitialized |-> FALSE, currentPdfDoc |-> FALSE, runs |-> <<>>,
   listeners |-> 0, fallbackTimer |-> FALSE]

\* attemptInitialization(): once per flag, a timer of 100 ms that will call
\* initializePdfViewer()
AttemptInitialization(p) ==
  IF p.initializationAttempted THEN p
  ELSE [p EXCEPT !.initializationAttempted = TRUE,
                 !.runs = Append(@, "timer")]

\* the handler of the window's load event and of the timer of 2000 ms
FallbackInitialization(p) ==
  IF ~p.isInitialized /\ ~p.currentPdfDoc
    THEN AttemptInitialization([p EXCEPT !.initializationAttempted = FALSE])
    ELSE p

\* the script's variables when its top level has run: the primary
\* initialization, the load listener and the timer of 2000 ms
ScriptStarted(readyState) ==
  LET p == [ScriptNew(readyState) EXCEPT !.fallbackTimer = TRUE]
  IN  IF readyState = "loading" THEN p ELSE AttemptInitialization(p)

\* the run of initializePdfViewer() is under way
InProgress(pc) == pc \in {"waitDOM", "loading", "rendering"}

\* a run that awaited DOMContentLoaded goes on to load the document
AfterDOMReady(runs) ==
  [i \in DOMAIN runs |-> IF runs[i] = "waitDOM" THEN "loading" ELSE runs[i]]

\* the document fires DOMContentLoaded: the listener of the primary
\* initialization and the runs waiting in waitForDOMReady()
PvDOMContentLoaded ==
  /\ UNCHANGED offScript
  /\ pv.readyState = "loading"
  /\ pv' = AttemptInitialization(
             [pv EXCEPT !.readyState = "interactive",
                        !.runs = AfterDOMReady(@)])

\* the window fires load
PvWindowLoad ==
  /\ UNCHANGED offScript
  /\ pv.readyState = "interactive"
  /\ pv' = FallbackInitialization([pv EXCEPT !.readyState = "complete"])

\* the timer of 2000 ms runs
PvFallbackTimer ==
  /\ UNCHANGED offScript
  /\ pv.fallbackTimer
  /\ pv' = FallbackInitialization([pv EXCEPT !.fallbackTimer = FALSE])

\* the timer of 100 ms of run i calls initializePdfViewer(), which runs to its
\* first wait; the timers run in the order they were set
PvRunBegins(i) ==
  /\ UNCHANGED offScript
  /\ i \in DOMAIN pv.runs
  /\ pv.runs[i] = "timer"
  /\ \A j \in 1..(i - 1) : pv.runs[j] # "timer"
  /\ pv' = [pv EXCEPT !.runs[i] =
              IF pv.isInitialized THEN "skipped"
              ELSE IF pv.readyState = "loading" THEN "waitDOM"
              ELSE "loading"]

\* setupEventListeners(); isInitialized = true at the end of run i
RunCompletes(p, i) ==
  [p EXCEPT !.runs[i] = "done",
            !.listeners = @ + 1,
            !.isInitialized = TRUE]

\* loadingTask.promise of run i settles: with the document, which loadPdf()
\* goes on to render, or with an error, which loadPdf() catches and returns
PvDocument(i, ok) ==
  /\ UNCHANGED offScript
  /\ i \in DOMAIN pv.runs
  /\ pv.runs[i] = "loading"
  /\ pv' = IF ok THEN [pv EXCEPT !.runs[i] = "rendering",
                                 !.currentPdfDoc = TRUE]
                 ELSE RunCompletes(pv, i)

\* renderPage() of run i settles
PvRendered(i) ==
  /\ UNCHANGED offScript
  /\ i \in DOMAIN pv.runs
  /\ pv.runs[i] = "rendering"
  /\ pv' = RunCompletes(pv, i)

-----------------------------------------------------------------------------
(* Specifications: each runs one object and holds the others still *)

SessionOff ==
  /\ tts = [isInitialized |-> FALSE, currentUtterance |-> NoUtterance,
            isPlaying |-> FALSE, isPaused |-> FALSE,
            availableVoices |-> 0, wordTimer |-> NoTimer,
            currentWords |-> <<>>, currentWordIndex |-> 0,
            onWordStart |-> NoCallback]
  /\ synth = [exists |-> FALSE, voices |-> 0, responsive |-> FALSE,
              queue |-> <<>>, speaking |-> FALSE, paused |-> FALSE,
              events |-> <<>>]
  /\ utter = <<>>
  /\ timers = {}
  /\ microtasks = <<>>
  /\ obs = Quiet
  /\ calls = 0

SelectOff ==
  /\ mgr = [class |-> "CloudTtsManager", isInitialized |-> FALSE,
            currentProvider |-> NoProvider, providers |-> <<>>,
            onError |-> FALSE, onSuccess |-> FALSE]
  /\ run = IdleRun

CloudOff ==
  cloud = [isInitialized |-> FALSE, currentProvider |-> NoProvider,
           isPlaying |-> FALSE, onStatusChange |-> FALSE, onEnd |-> FALSE,
           onError |-> FALSE, onSuccess |-> FALSE]

LoadOff == ld = LoadIdle

FixedOff == fx = FixedNew(FALSE, FALSE)

CalcOff == calc = [fn |-> "none"]

BookOff == book = NewBook("none")

ProgressOff == storage = NewStorage /\ viewer = NewViewer("none")

CompOff == comp = NewComp /\ audio = <<>>

LastOff == sm = SimpleNew(FALSE) /\ enh = EnhancedNew /\ pv = ScriptNew("none")

MoreOff == BookOff /\ ProgressOff /\ CompOff /\ LastOff

\* the objects of the later sections, held still
LaterOff == LoadOff /\ FixedOff /\ CalcOff /\ MoreOff

PubOff ==
  /\ pub = [isInitialized |-> FALSE, currentUtterance |-> NoUtterance,
            isPlaying |-> FALSE, isPaused |-> FALSE,
            userInteractionRequired |-> TRUE,
            providers |-> NewProviders, selectedProvider |-> "null",
            onStatusChange |-> FALSE, onSuccess |-> FALSE]
  /\ pinit = [pc |-> "idle", n |-> 0]
  /\ page = [platform |-> "macos", rvTag |-> FALSE, modal |-> <<>>]

\* the speech session of UniversalTTSManager (scripts/tts-manager.js)
Init == SessionInit /\ SelectOff /\ CloudOff /\ PubOff /\ LaterOff

Next ==
  \/ UInitialize
  \/ \E text \in Texts, k \in CancelNotify : USpeak(text, k)
  \/ \E text \in Texts, k \in CancelNotify :
       USpeakWithWordCallback(text, TRUE, k)
  \/ USpeakResume
  \/ UPause
  \/ UResume
  \/ \E k \in CancelNotify : UStop(k)
  \/ \E h \in timers : WordTimerTick(h)
  \/ EngineCancelEvent
  \/ EngineStart
  \/ EngineEnd
  \/ EngineError

Spec == Init /\ [][Next]_vars

\* the event loop runs every task that is ready: continuations, timer
\* callbacks, and the events of an engine that answers
FairSession ==
  /\ Init
  /\ [][Next]_vars
  /\ WF_vars(USpeakResume)
  /\ WF_vars(\E h \in timers : WordTimerTick(h))
  /\ WF_vars(EngineCancelEvent)
  /\ WF_vars(EngineStart)
  /\ WF_vars(EngineEnd)

\* AudiobookMode reading a document through its UniversalTTSManager
InitBook ==
  /\ SessionInit
  /\ book = NewBook("a.pdf")
  /\ SelectOff /\ CloudOff /\ PubOff
  /\ LoadOff /\ FixedOff /\ CalcOff /\ ProgressOff /\ CompOff /\ LastOff

NextBook ==
  \/ \E extracted \in BOOLEAN : AInitialize(extracted)
  \/ \E pageNumber \in 0..(MaxPages + 1), k \in CancelNotify :
       AStartReading(pageNumber, k)
  \/ \E k \in CancelNotify : APreviousPage(k)
  \/ ANextPage
  \/ \E k \in CancelNotify : ATimeout(k)
  \/ \E k \in CancelNotify : AStop(k)
  \/ \E pageNumber \in 0..MaxPages, k \in CancelNotify :
       AGoToPage(pageNumber, k)
  \/ \E autoAdvance \in BOOLEAN :
       AUpdateSettings([autoAdvance |-> autoAdvance])
  \/ USpeakResume
  \/ EngineCancelEvent
  \/ EngineStart
  \/ EngineEnd
  \/ EngineError

SpecBook == InitBook /\ [][NextBook]_vars

\* the reading progress kept in localStorage
Speeds == {100, 150}

InitProgress ==
  /\ SessionOff /\ SelectOff /\ CloudOff /\ PubOff
  /\ LoadOff /\ FixedOff /\ CalcOff /\ CompOff
  /\ BookOff /\ ProgressOff /\ LastOff

NextProgress ==
  \/ \E pdfUrl \in Urls : ANew(pdfUrl)
  \/ \E pageNumber \in 1..MaxPages : AStartReading(pageNumber, "none")
  \/ \E speed \in Speeds : AUpdateSettings([speed |-> speed])
  \/ ASaveProgress
  \/ ALoadProgress
  \/ \E pdfUrl \in Urls : VOpen(pdfUrl)
  \/ \E num \in 1..MaxPages : VRenderPage(num)

SpecProgress == InitProgress /\ [][NextProgress]_vars

\* CloudTtsManager of components/CloudTtsManager.js
InitComp ==
  /\ SessionOff /\ SelectOff /\ CloudOff /\ PubOff
  /\ LoadOff /\ FixedOff /\ CalcOff
  /\ BookOff /\ ProgressOff /\ CompOff /\ LastOff

NextComp ==
  \/ \E first \in DOMAIN CompProviders : CompInitialize(first)
  \/ \E allowed \in BOOLEAN : CompSpeak(allowed)
  \/ CompStop
  \/ \E i \in DOMAIN audio : AudioPlay(i)
  \/ \E i \in DOMAIN audio : AudioEnded(i)
  \/ \E i \in DOMAIN audio : AudioError(i)
  \/ \E i \in DOMAIN audio : UtteranceStart(i)
  \/ \E i \in DOMAIN audio, ended \in BOOLEAN : UtteranceDone(i, ended)

SpecComp == InitComp /\ [][NextComp]_vars

\* provider selection
InitSelect == SelectInit /\ SessionOff /\ CloudOff /\ PubOff /\ LaterOff

NextSelect ==
  \/ SInitialize
  \/ \E text \in Texts : SSpeak(text)
  \/ \E outcome \in {"true", "false", "throw"}, noVoices \in BOOLEAN :
       STestSettled(outcome, noVoices)

SpecSelect == InitSelect /\ [][NextSelect]_vars

\* CloudTtsManager of unnamed/part_001
InitCloud ==
  /\ CloudInit
  /\ tts = [isInitialized |-> FALSE, currentUtterance |-> NoUtterance,
            isPlaying |-> FALSE, isPaused |-> FALSE,
            availableVoices |-> 0, wordTimer |-> NoTimer,
            currentWords |-> <<>>, currentWordIndex |-> 0,
            onWordStart |-> NoCallback]
  /\ timers = {}
  /\ SelectOff
  /\ PubOff
  /\ LaterOff

NextCloud ==
  \/ CloudInitialize
  \/ \E text \in Texts, k \in CancelNotify : CloudSpeak(text, k)
  \/ \E k \in CancelNotify : CloudTryFallbackProviders(k)
  \/ \E k \in CancelNotify : CloudStop(k)
  \/ CloudPause
  \/ CloudResume
  \/ CloudEngineCancelEvent
  \/ CloudEngineStart
  \/ CloudEngineEnd
  \/ CloudEngineError

SpecCloud == InitCloud /\ [][NextCloud]_vars

\* initialize() of UniversalTTSManager (scripts/tts-manager.js)
InitLoad == LoadInit /\ SelectOff /\ CloudOff /\ PubOff /\ FixedOff /\ CalcOff
            /\ MoreOff

NextLoad ==
  \/ LInitialize
  \/ LAttemptTimer
  \/ \E voices \in {0, 1} : LVoicesChanged(voices)

\* the event loop runs every timer callback that is ready
FairLoad ==
  /\ InitLoad
  /\ [][NextLoad]_vars
  /\ WF_vars(LAttemptTimer)

\* initialize() with the speak() calls around it; the engine's speech events
\* are left out
NextLoadSpeak ==
  \/ LInitialize
  \/ LAttemptTimer
  \/ \E voices \in {0, 1} : LVoicesChanged(voices)
  \/ \E text \in Texts, k \in CancelNotify : USpeak(text, k)
  \/ USpeakResume

SpecLoadSpeak == InitLoad /\ [][NextLoadSpeak]_vars

\* TtsManagerFixed of components/TtsManagerFixed.js
InitFixed ==
  /\ FixedInit
  /\ tts = [isInitialized |-> FALSE, currentUtterance |-> NoUtterance,
            isPlaying |-> FALSE, isPaused |-> FALSE,
            availableVoices |-> 0, wordTimer |-> NoTimer,
            currentWords |-> <<>>, currentWordIndex |-> 0,
            onWordStart |-> NoCallback]
  /\ timers = {}
  /\ microtasks = <<>>
  /\ SelectOff
  /\ CloudOff
  /\ PubOff
  /\ LoadOff
  /\ CalcOff
  /\ MoreOff

NextFixed ==
  \/ \E outcomes \in [1..Len(FixedProviders) -> {"true", "false", "throw"}] :
       FInitialize(outcomes)
  \/ \E text \in PubTexts, k \in CancelNotify : FSpeak(text, k)
  \/ \E k \in CancelNotify : FStop(k)
  \/ FEngineCancelEvent
  \/ FEngineStart
  \/ FEngineEnd
  \/ \E code \in GenuineErrors : FEngineError(code)

SpecFixed == InitFixed /\ [][NextFixed]_vars

\* a SimpleTtsManager on a Linux host
InitSimple ==
  /\ SimpleInit
  /\ tts = [isInitialized |-> FALSE, currentUtterance |-> NoUtterance,
            isPlaying |-> FALSE, isPaused |-> FALSE,
            availableVoices |-> 0, wordTimer |-> NoTimer,
            currentWords |-> <<>>, currentWordIndex |-> 0,
            onWordStart |-> NoCallback]
  /\ timers = {}
  /\ microtasks = <<>>
  /\ SelectOff /\ CloudOff /\ PubOff
  /\ LoadOff /\ FixedOff /\ CalcOff
  /\ BookOff /\ ProgressOff /\ CompOff
  /\ enh = EnhancedNew /\ pv = ScriptNew("none")

NextSimple ==
  \/ SimpleInitialize
  \/ \E text \in Texts, k \in CancelNotify : SimpleSpeak(text, k)
  \/ SimplePause
  \/ SimpleResume
  \/ \E k \in CancelNotify : SimpleStop(k)
  \/ SimpleCancelEvent
  \/ SimpleEngineStart
  \/ SimpleEngineEnd
  \/ SimpleEngineError
  \/ \E u \in 1..MaxCalls : SimpleFallbackTimer(u)
  \/ \E u \in 1..MaxCalls : SimpleStartTimeout(u)

SpecSimple == InitSimple /\ [][NextSimple]_vars

\* a TtsManager of unnamed/part_006
InitEnhanced ==
  /\ EnhancedInit
  /\ tts = [isInitialized |-> FALSE, currentUtterance |-> NoUtterance,
            isPlaying |-> FALSE, isPaused |-> FALSE,
            availableVoices |-> 0, wordTimer |-> NoTimer,
            currentWords |-> <<>>, currentWordIndex |-> 0,
            onWordStart |-> NoCallback]
  /\ timers = {}
  /\ microtasks = <<>>
  /\ SelectOff /\ CloudOff /\ PubOff
  /\ LoadOff /\ FixedOff /\ CalcOff
  /\ BookOff /\ ProgressOff /\ CompOff
  /\ sm = SimpleNew(FALSE) /\ pv = ScriptNew("none")

NextEnhanced ==
  \/ EnhancedInitialize
  \/ \E k \in CancelNotify : EnhancedTestTimeout(k)
  \/ \E text \in PubTexts, k \in CancelNotify : EnhancedSpeak(text, k)
  \/ \E k \in CancelNotify : EnhancedEnableClick(k)
  \/ \E k \in CancelNotify : EnhancedStop(k)
  \/ EnhancedCancelEvent
  \/ \E k \in CancelNotify : EnhancedEngineStart(k)
  \/ EnhancedEngineEnd
  \/ EnhancedEngineError

SpecEnhanced == InitEnhanced /\ [][NextEnhanced]_vars

\* one load of a page with the PDF viewer
MaxRuns == 3

InitScript ==
  /\ pv \in {ScriptStarted(r) : r \in {"loading", "interactive", "complete"}}
  /\ SessionOff /\ SelectOff /\ CloudOff /\ PubOff
  /\ LoadOff /\ FixedOff /\ CalcOff
  /\ BookOff /\ ProgressOff /\ CompOff
  /\ sm = SimpleNew(FALSE) /\ enh = EnhancedNew

NextScript ==
  \/ PvDOMContentLoaded
  \/ PvWindowLoad
  \/ PvFallbackTimer
  \/ \E i \in 1..MaxRuns : PvRunBegins(i)
  \/ \E i \in 1..MaxRuns, ok \in BOOLEAN : PvDocument(i, ok)
  \/ \E i \in 1..MaxRuns : PvRendered(i)

SpecScript == InitScript /\ [][NextScript]_vars

\* a page that holds a UniversalTTSManager and a SimpleTtsManager and uses the
\* one it initialized
InitPaused == Init \/ InitSimple

UniversalInUse == ~sm.isInitialized
SimpleInUse == ~tts.isInitialized

NextPaused ==
  \/ UniversalInUse /\ UInitialize
  \/ \E text \in Texts, k \in CancelNotify :
       UniversalInUse /\ USpeak(text, k)
  \/ \E text \in Texts, k \in CancelNotify :
       UniversalInUse /\ USpeakWithWordCallback(text, TRUE, k)
  \/ UniversalInUse /\ USpeakResume
  \/ UniversalInUse /\ UPause
  \/ UniversalInUse /\ UResume
  \/ \E k \in CancelNotify : UniversalInUse /\ UStop(k)
  \/ \E h \in timers : UniversalInUse /\ WordTimerTick(h)
  \/ UniversalInUse /\ EngineCancelEvent
  \/ UniversalInUse /\ EngineStart
  \/ UniversalInUse /\ EngineEnd
  \/ UniversalInUse /\ EngineError
  \/ SimpleInUse /\ SimpleInitialize
  \/ \E text \in Texts, k \in CancelNotify :
       SimpleInUse /\ SimpleSpeak(text, k)
  \/ SimpleInUse /\ SimplePause
  \/ SimpleInUse /\ SimpleResume
  \/ \E k \in CancelNotify : SimpleInUse /\ SimpleStop(k)
  \/ SimpleInUse /\ SimpleCancelEvent
  \/ SimpleInUse /\ SimpleEngineStart
  \/ SimpleInUse /\ SimpleEngineEnd
  \/ SimpleInUse /\ SimpleEngineError
  \/ \E u \in 1..MaxCalls : SimpleInUse /\ SimpleFallbackTimer(u)
  \/ \E u \in 1..MaxCalls : SimpleInUse /\ SimpleStartTimeout(u)

SpecPaused == InitPaused /\ [][NextPaused]_vars

\* the configuration of utterances and the ranking of voices: a behaviour is
\* one call, its arguments drawn at the start
CalcInputs ==
  {[fn |-> "none", call |-> "speakWithWordCallback", options |-> options,
    voices |-> voices, platform |-> platform] :
     options \in Options,
     voices \in {v \in VoiceLists : Len(v) < MaxVoices},
     platform \in {"mac", "unknown"}}
  \cup
  {[fn |-> "none", call |-> "SimpleTtsManager.speak", platform |-> platform,
    options |-> options] : platform \in CalcPlatforms, options \in Options}
  \cup
  {[fn |-> "none", call |-> "getBestVoices", voices |-> voices,
    platform |-> platform, simple |-> simple] :
     voices \in VoiceLists, platform \in CalcPlatforms, simple \in BOOLEAN}
  \cup
  {[fn |-> "none", call |-> "clampParameters", manager |-> manager,
    options |-> options] :
     manager \in ClampingManagers, options \in ClampOptions}
  \cup
  {[fn |-> "none", call |-> "selectBestProvider", providers |-> providers] :
     providers \in ProbedProviders}
  \cup
  {[fn |-> "none", call |-> "showSystemSpecificGuidance",
    platform |-> platform, handler |-> handler] :
     platform \in NavigatorPlatforms, handler \in BOOLEAN}
  \cup
  {[fn |-> "none", call |-> "speakWebSpeech", voice |-> voice,
    available |-> available,
    system |-> IF available # <<>> THEN available ELSE system] :
     voice \in VoiceOptions, available \in VoiceLists,
     system \in {<<>>, <<Voice("Amelie", {}, "fr-FR", FALSE, TRUE)>>}}

InitCalc == calc \in CalcInputs /\ SessionOff /\ SelectOff /\ CloudOff /\ PubOff
            /\ LoadOff /\ FixedOff /\ MoreOff

NextCalc ==
  \/ ConfigureUtterance(calc.options, calc.voices, calc.platform)
  \/ SimpleSpeakParameters(calc.platform, calc.options)
  \/ GetBestVoices(calc.voices, calc.platform, calc.simple)
  \/ SpeakWebSpeechVoice(calc.voice, calc.available, calc.system)
  \/ SelectBest(calc.providers)
  \/ ShowSystemSpecificGuidance(calc.platform, calc.handler)
  \/ ClampParameters(calc.manager, calc.options)

SpecCalc == InitCalc /\ [][NextCalc]_vars

\* UniversalTtsManager of public/UniversalTtsManager.js
InitPub ==
  /\ PubInit
  /\ tts = [isInitialized |-> FALSE, currentUtterance |-> NoUtterance,
            isPlaying |-> FALSE, isPaused |-> FALSE,
            availableVoices |-> 0, wordTimer |-> NoTimer,
            currentWords |-> <<>>, currentWordIndex |-> 0,
            onWordStart |-> NoCallback]
  /\ timers = {}
  /\ SelectOff
  /\ CloudOff
  /\ LaterOff

NextPub ==
  \/ PubInitialize
  \/ PubCheckReady
  \/ PubResponsiveVoiceFailed
  \/ \E k \in CancelNotify : PubInitializeWebSpeech(k)
  \/ PubCheckVoices
  \/ \E k \in CancelNotify : PubInitializeEnhanced(k)
  \/ \E text \in PubTexts, k \in CancelNotify : PubSpeak(text, k)
  \/ \E k \in CancelNotify : PubEnableClick(k)
  \/ \E k \in CancelNotify : PubStop(k)
  \/ PubPause
  \/ PubResume
  \/ \E k \in CancelNotify : PubFallbackResume(k)
  \/ \E k \in CancelNotify : PubEngineCancelError(k)
  \/ PubEngineCancelEnd
  \/ PubEngineStart
  \/ PubEngineEnd
  \/ \E k \in CancelNotify : PubEngineError(k)

SpecPub == InitPub /\ [][NextPub]_vars

\* the event loop runs every timer callback and every continuation that is
\* ready, and the host settles what it was asked
FairPub ==
  /\ InitPub
  /\ [][NextPub]_vars
  /\ WF_vars(PubCheckReady)
  /\ WF_vars(PubResponsiveVoiceFailed)
  /\ WF_vars(\E k \in CancelNotify : PubInitializeWebSpeech(k))
  /\ WF_vars(PubCheckVoices)
  /\ WF_vars(\E k \in CancelNotify : PubInitializeEnhanced(k))
  /\ WF_vars(\E k \in CancelNotify : PubFallbackResume(k))

-----------------------------------------------------------------------------
(* Properties of the speech session *)

\* the utterances of speak() calls in the engine's queue
EngineQueue == {i \in 1..Len(synth.queue) : synth.queue[i] # DummyUtterance}

\* the onWordStart calls of the last step
WordEvents ==
  {i \in 1..Len(obs.emitted) : obs.emitted[i][1] = "onWordStart"}

\* C1: a speak() made while an earlier utterance is queued or speaking cancels
\* the earlier one: at most one utterance is queued or speaking in the engine,
\* and the timer of an utterance that a later speak() has replaced reports no
\* word.
C1_OneActiveUtterance ==
  /\ Cardinality(EngineQueue) <= 1
  /\ \A i \in WordEvents : ~utter[obs.emitted[i][2]].superseded

\* C5: once stop() has returned, onWordStart is not invoked for an utterance
\* that was requested before that stop().
C5_NoWordAfterStop ==
  \A i \in WordEvents : ~utter[obs.emitted[i][2]].stopped

\* C6: an utterance of n words that ran from its start event to its end event
\* with no pause(), stop() or later speak() has had onWordStart invoked exactly
\* n times, with (word i, index i) in increasing order.
C6_OneEventPerWord ==
  \A u \in DOMAIN utter :
    (/\ utter[u].state = "ended"
     /\ utter[u].cb
     /\ ~utter[u].paused /\ ~utter[u].stopped /\ ~utter[u].superseded)
    => /\ utter[u].words = Len(Split(utter[u].text))
       /\ utter[u].inOrder

\* C10: the promise of every speak() call eventually settles, also when the
\* engine fires no event for the utterance.
C10_SpeakSettles ==
  \A u \in 1..MaxCalls :
    (u \in DOMAIN utter /\ Pending(u)) ~> ~(u \in DOMAIN utter /\ Pending(u))

-----------------------------------------------------------------------------
(* Properties of provider selection *)

\* the outcomes of the tests the initialize() call has awaited so far
Outcomes == [j \in 1..Len(run.tested) |-> run.tested[j].outcome]

\* the calls of handler `name` the initialize() call has made
Calls(name) == {j \in 1..Len(run.emitted) : run.emitted[j][1] = name}

\* C2: CloudTtsManager.initialize and TtsManager.initialize test the providers
\* in registration order; a provider whose test resolves false or throws is
\* passed over; the first provider whose test resolves truthy becomes
\* currentProvider and initialize resolves true, with no later test invoked.
C2_FirstAvailableInOrder ==
  mgr.class \in {"CloudTtsManager", "TtsManager"} =>
    /\ \A j \in 1..Len(run.tested) : run.tested[j].provider = j
    /\ \A j \in 1..(Len(run.tested) - 1) : Outcomes[j] # "true"
    /\ run.pc = "testing" => /\ run.i = Len(run.tested) + 1
                             /\ \A j \in 1..Len(run.tested) : Outcomes[j] # "true"
    /\ run.pc = "done" =>
         IF Outcomes[Len(run.tested)] = "true"
           THEN /\ run.result = "true"
                /\ mgr.currentProvider = Len(run.tested)
                /\ mgr.isInitialized
           ELSE /\ run.result = "false"
                /\ Len(run.tested) = Len(mgr.providers)

\* a false and a thrown test were passed over before a provider was selected
C2_Witness ==
  /\ mgr.class = "TtsManager"
  /\ run.pc = "done"
  /\ run.result = "true"
  /\ mgr.currentProvider = 4
  /\ Outcomes = <<"false", "throw", "throw", "true">>

\* C3: on a fresh instance, when every provider's test resolves false or
\* throws, initialize() resolves false, currentProvider stays null,
\* isInitialized stays false, and the guidance presenter runs exactly once
\* (calling the onError handler once with the guidance record), at the end.
C3_AllFailGuidanceOnce ==
  run.n = 1 =>
    /\ run.pc = "testing" => run.guidance = 0 /\ Calls("onError") = {}
    /\ (run.pc = "done" /\ \A j \in 1..Len(run.tested) : Outcomes[j] # "true")
       => /\ Len(run.tested) = Len(mgr.providers)
          /\ run.result = "false"
          /\ mgr.currentProvider = NoProvider
          /\ ~mgr.isInitialized
          /\ run.guidance = 1
          /\ Cardinality(Calls("onError")) = (IF mgr.onError THEN 1 ELSE 0)
          /\ Calls("onSuccess") = {}

\* every test of a fresh TtsManagerFixed failed and its owner was told
C3_Witness ==
  /\ run.n = 1
  /\ run.pc = "done"
  /\ mgr.class = "TtsManagerFixed"
  /\ mgr.onError
  /\ Outcomes = <<"throw", "throw", "throw", "false">>
  /\ run.emitted = << <<"onError", "guidance">> >>

-----------------------------------------------------------------------------
(* Properties of stop() *)

\* no utterance is requested, queued or speaking, and no event is owed
NoUtteranceActive ==
  /\ synth.queue = <<>>
  /\ synth.events = <<>>
  /\ microtasks = <<>>
  /\ \A u \in DOMAIN utter : ~Live(u)

\* C4: stop() called when no session is active is a no-op in UniversalTTSManager
\* (scripts/tts-manager.js) and in CloudTtsManager (unnamed/part_001): it
\* changes no field of the manager, throws nothing and runs no callback.
C4_StopIdleIsNoOp ==
  [][ /\ ((\E k \in CancelNotify : UStop(k))
            /\ ~tts.isPlaying /\ NoUtteranceActive)
         => (tts' = tts /\ obs' = Quiet)
      /\ ((\E k \in CancelNotify : CloudStop(k))
            /\ ~cloud.isPlaying /\ NoUtteranceActive)
         => (cloud' = cloud /\ obs' = Quiet) ]_vars

-----------------------------------------------------------------------------
(* Properties of initialize() and loadVoices() *)

\* C11: loadVoices() resolves: while it has not, no read has found a voice and
\* fewer than 50 reads have been made; it resolves with voices, or at the 50th
\* read with none; once 50 reads are made no step arms a further timer; and a
\* call that has begun comes to its end.
C11_LoadVoicesResolves ==
  /\ [](ld.pc = "loading" =>
          tts.availableVoices = 0 /\ ld.attempts < maxAttempts)
  /\ [](ld.resolvedAt # 0 =>
          \/ ld.result = "true" /\ ld.resolvedAt <= maxAttempts
          \/ ld.result = "false" /\ ld.resolvedAt = maxAttempts)
  /\ [][ld.attempts >= maxAttempts => ld'.armed <= ld.armed]_vars
  /\ (ld.pc = "loading" ~> ld.pc = "returned")

\* C11 (case): the host never reported a voice and loadVoices() resolved at
\* the 50th read with an empty availableVoices
C11_Witness ==
  /\ ld.pc = "returned"
  /\ ld.resolvedAt = maxAttempts
  /\ ld.result = "false"
  /\ tts.availableVoices = 0
  /\ ld.armed = 0

\* C14: initialize() has returned true exactly if the manager is in the state
\* from which speak() is accepted (isInitialized), and a speak() call after it
\* has returned false throws 'TTS not initialized'.
C14_TrueIffInitialized ==
  /\ [](ld.pc = "returned" => (ld.result = "true" <=> tts.isInitialized))
  /\ [][ (ld.result = "false" /\ calls' = calls + 1)
           => obs'.thrown = "TTS not initialized" ]_vars

C16_CancelErrorNeverRejects ==
  [][ (/\ synth.events # <<>>
       /\ Head(synth.events)[2] = "error"
       /\ EngineCancelEvent)
      => \A u \in DOMAIN utter \cap DOMAIN utter' :
           utter'[u].promise = "rejected" => utter[u].promise = "rejected"
    ]_vars

\* C17: when the engine reports a genuine failure on an utterance that has
\* not started, the speak() call of 'Enhanced Web Speech' is rejected or
\* onError is invoked.
C17_GenuineFailureSurfaced ==
  [][ (/\ synth.queue # <<>>
       /\ Head(synth.queue) \in DOMAIN utter
       /\ utter[Head(synth.queue)].promise = "pending"
       /\ \E code \in GenuineErrors : FEngineError(code))
      => \/ utter'[Head(synth.queue)].promise = "rejected"
         \/ \E i \in 1..Len(obs'.emitted) : obs'.emitted[i][1] = "onError"
    ]_vars

-----------------------------------------------------------------------------
(* Properties of the configuration of utterances and of voice ranking *)

\* v is a number within lo..hi (hundredths)
Within(v, lo, hi) == v.k = "num" /\ lo <= v.v /\ v.v <= hi

\* the names of the voices of a list
Names(voices) == {voices[i].name : i \in 1..Len(voices)}

\* C12: for numeric options the utterance speakWithWordCallback hands to the
\* engine has rate within [0.1, 10], pitch within [0, 2] and volume within
\* [0, 1], and the call does not throw.
C12_ParametersClamped ==
  (/\ calc.fn = "speakWithWordCallback"
   /\ calc.options.rate.k # "NaN")
  => /\ calc.out.thrown = "none"
     /\ Within(calc.out.rate, 10, 1000)
     /\ Within(calc.out.pitch, 0, 200)
     /\ Within(calc.out.volume, 0, 100)

\* C13: with options.rate NaN the utterance of SimpleTtsManager.speak gets a
\* finite rate within [0.1, 10] and the call does not throw.
C13_NaNRateGetsDefault ==
  (calc.fn = "SimpleTtsManager.speak" /\ calc.options.rate = NaN)
  => calc.out.thrown = "none" /\ Within(calc.out.rate, 10, 1000)

\* C18: when options.voice is a voice of the current list, the utterance of
\* speakWithWordCallback uses that voice.
C18_ExplicitVoiceUsed ==
  (calc.fn = "speakWithWordCallback" /\ calc.options.voice \in Names(calc.voices))
  => calc.voice = calc.options.voice

\* C19: when options.voice names no voice of availableVoices, the utterance of
\* speakWebSpeech gets the selected default voice, else the first system
\* voice, and no voice only if there is none.
C19_UnknownVoiceFallsThrough ==
  (/\ calc.fn = "speakWebSpeech"
   /\ calc.voice # "undefined"
   /\ calc.voice \notin Names(calc.available))
  => calc.out = IF calc.selected # NoVoice THEN calc.selected
                ELSE IF Len(calc.system) > 0 THEN calc.system[1].name
                ELSE NoVoice

\* the score getBestVoices() ranks the voice by
ScoreOf(voice) ==
  IF calc.simple THEN CalculateVoiceQuality(voice, calc.platform)
                 ELSE CalculateVoiceScore(voice, <<>>, calc.platform)

\* C20: getBestVoices() returns a permutation of the voice list in order of
\* non-increasing score, voices of equal score in their order in the list;
\* for the empty list it returns the empty sequence.
C20_StableRanking ==
  calc.fn = "getBestVoices" =>
    /\ Len(calc.out) = Len(calc.voices)
    /\ Names(calc.out) = Names(calc.voices)
    /\ \A i, j \in 1..Len(calc.out) :
         i < j =>
           /\ ScoreOf(calc.out[i]) >= ScoreOf(calc.out[j])
           /\ ScoreOf(calc.out[i]) = ScoreOf(calc.out[j]) =>
                \E a, b \in 1..Len(calc.voices) :
                  /\ a < b
                  /\ calc.voices[a] = calc.out[i]
                  /\ calc.voices[b] = calc.out[j]

\* C20 (case): a list of three voices, two of them of equal score, was put
\* into another order
C20_Witness ==
  /\ calc.fn = "getBestVoices"
  /\ Len(calc.voices) = MaxVoices
  /\ calc.out # calc.voices
  /\ \E i, j \in 1..Len(calc.out) :
       i < j /\ ScoreOf(calc.out[i]) = ScoreOf(calc.out[j])

-----------------------------------------------------------------------------
(* Properties of UniversalTtsManager of public/UniversalTtsManager.js *)

\* C7: the promise of a speak() call is rejected only after every available
\* provider that comes later than the provider of the call, in the order
\* responsiveVoice, webSpeech, speechSynthesis, cloudTts, has been tried with
\* the text of the call.
C7_RejectsOnlyAfterExhaustion ==
  \A u \in DOMAIN utter :
    utter[u].promise = "rejected" =>
      \A i \in AvailableFrom(pub, IndexOf(utter[u].provider) + 1) :
        ProviderOrder[i] \in utter[u].tried

\* C8: the error event of an utterance that stop() or a later speak() has
\* cancelled changes no selected provider, puts nothing in the queue of the
\* engine, shows nothing and rejects no promise.
C8_CancellationIsBenign ==
  [][ (\E k \in CancelNotify : PubEngineCancelError(k)) =>
        /\ pub'.selectedProvider = pub.selectedProvider
        /\ synth'.queue = synth.queue
        /\ obs'.emitted = <<>>
        /\ \A u \in DOMAIN utter \cap DOMAIN utter' :
             utter'[u].promise = "rejected" => utter[u].promise = "rejected"
    ]_vars

\* C9: an initialize() call that has begun returns.
C9_InitializeReturns ==
  (pinit.pc \in {"rvPoll", "rvLoad", "webSpeech", "enhanced"})
    ~> (pinit.pc = "done")

\* C21: in an initialize() call the provider whose probe is the first to
\* succeed becomes the selected provider, and once a probe has succeeded no
\* later provider is probed: initializeEnhancedSpeechSynthesis() runs only
\* when the probe of webSpeech has not made webSpeech available.
C21_FirstSuccessStopsProbing ==
  [][ (\E k \in CancelNotify : PubInitializeEnhanced(k)) =>
        /\ ~pub.providers.webSpeech.available
        /\ pub'.selectedProvider # "null" =>
             \A n \in DOMAIN pub'.providers :
               pub'.providers[n].available =>
                 pub'.providers[pub'.selectedProvider].priority
                   <= pub'.providers[n].priority
    ]_vars

\* C22: selectBestProvider() selects, among the providers the probes left
\* available, the one of the lowest priority number; cloudTts is selected only
\* when none of responsiveVoice, webSpeech and speechSynthesis is available.
C22_LowestPriorityNumber ==
  calc.fn = "selectBestProvider" =>
    LET available == {n \in DOMAIN calc.providers :
                        calc.providers[n].available}
    IN  /\ calc.out \in available
        /\ \A n \in available :
             calc.providers[calc.out].priority <= calc.providers[n].priority
        /\ calc.out = "cloudTts" => available = {"cloudTts"}

\* C22 (case): webSpeech was selected while speechSynthesis and cloudTts were
\* available too
C22_Witness ==
  /\ calc.fn = "selectBestProvider"
  /\ calc.out = "webSpeech"
  /\ calc.providers.speechSynthesis.available
  /\ calc.providers.cloudTts.available

-----------------------------------------------------------------------------
(* Properties of TtsManagerFixed of components/TtsManagerFixed.js *)

\* C29: whenever initialize() resolves true, currentProvider is the first
\* provider in registration order whose test() succeeded in that call; a
\* provider whose test() was not run or did not succeed is never made the
\* active provider.
C29_ActiveIsFirstTested ==
  [][ \A outcomes \in [1..Len(FixedProviders) -> {"true", "false", "throw"}] :
        (FInitialize(outcomes) /\ fx'.isInitialized) =>
          /\ IsAvailable(outcomes[fx'.currentProvider])
          /\ \A j \in 1..(fx'.currentProvider - 1) : ~IsAvailable(outcomes[j])
    ]_vars

-----------------------------------------------------------------------------
(* Properties of CloudTtsManager of unnamed/part_001 *)

\* the speak() of the rejected utterance at the head of the microtasks has no
\* provider left: every later registered provider fails its test
Exhausted ==
  /\ microtasks # <<>>
  /\ CloudFirstAvailable(
       IF utter[Head(microtasks)].call = "speak"
         THEN cloud.currentProvider + 1
         ELSE utter[Head(microtasks)].provider + 1) = NoProvider

\* C23: when the active provider's speak has failed and no later registered
\* provider passes its test and speaks, the speak() call rejects: the step
\* that finds the candidates exhausted throws to the caller of speak().
C23_ExhaustionRejects ==
  [][ (Exhausted /\ \E k \in CancelNotify : CloudTryFallbackProviders(k)) =>
        obs'.thrown # "none"
    ]_vars

\* C25: the guidance showSystemSpecificGuidance() passes to onError is the one
\* of the platform detected (linux, windows, mac, other) and lists a path that
\* needs no installation: copying the text to an external online reading
\* service.
C25_GuidanceHasCopyPath ==
  (calc.fn = "showSystemSpecificGuidance" /\ calc.handler) =>
    /\ Len(calc.onError) = 1
    /\ calc.onError[1].branch =
         (IF "linux" \in calc.platform.has THEN "linux"
          ELSE IF "win" \in calc.platform.has THEN "windows"
          ELSE IF "mac" \in calc.platform.has THEN "mac" ELSE "other")
    /\ calc.onError[1].paths
         \cap {"copy text to online service", "online service"} # {}

-----------------------------------------------------------------------------
(* Properties of AudiobookMode *)

\* C28: when the utterance of page p ends naturally while the AudiobookMode
\* is reading with autoAdvance enabled and p < totalPages, currentPage
\* becomes p + 1 and the reading of page p + 1 is started: the step arms the
\* timeout whose callback calls startReading().
C28_AutoAdvanceReadsNextPage ==
  [][ ( /\ EngineEnd
        /\ Head(synth.queue) # DummyUtterance
        /\ book.attached /\ book.isPlaying
        /\ book.settings.autoAdvance
        /\ book.currentPage < book.totalPages ) =>
        /\ book'.currentPage = book.currentPage + 1
        /\ book'.timeouts = book.timeouts + 1
    ]_vars

\* C38: once the AudiobookMode is initialized with totalPages >= 1, after any
\* sequence of nextPage, previousPage, goToPage(n) and startReading(n) calls
\* 1 <= currentPage <= totalPages.
C38_CurrentPageInRange ==
  (book.attached /\ book.totalPages >= 1) =>
    (1 <= book.currentPage /\ book.currentPage <= book.totalPages)

\* C30: an end or error event delivered for an utterance that a stop() or a
\* newer speak() has superseded changes nothing of the current session and
\* does not invoke onEnd, so it never runs handleTTSEnd() and never advances
\* the page.
C30_StaleEventIgnored ==
  [][ ( /\ EngineCancelEvent
        /\ Head(synth.events)[1] # tts.currentUtterance ) =>
        /\ tts' = tts
        /\ timers' = timers
        /\ \A i \in 1..Len(obs'.emitted) : obs'.emitted[i][1] # "onEnd"
        /\ book' = book
    ]_vars

-----------------------------------------------------------------------------
(* Properties of the reading progress *)

C27_ProgressPerDocument ==
  [][ \A u \in Urls :
        /\ (ASaveProgress /\ book.pdfUrl # u) =>
             LoadProgress(NewBook(u), storage') =
               LoadProgress(NewBook(u), storage)
        /\ ( /\ storage'.pdfReadingProgress # storage.pdfReadingProgress
             /\ viewer'.pdfUrl # u ) =>
             LoadReadingProgress(u, storage') = LoadReadingProgress(u, storage)
    ]_vars

-----------------------------------------------------------------------------
(* Properties of CloudTtsManager of components/CloudTtsManager.js *)

\* C24: speak() cancels the previous Audio element or queued utterance before
\* it issues the new one: after any sequence of speak() calls at most one
\* source of sound is playing, loading or queued.
C24_AtMostOneSource ==
  Cardinality({i \in DOMAIN audio : Active(audio[i])}) <= 1

-----------------------------------------------------------------------------
(* Properties of the fallback and of the interaction modal of
   UniversalTtsManager *)

\* C34: when an utterance errors before its start event and a fallback
\* provider then speaks the text, the promise of the original speak() call
\* resolves: the start of the utterance that a fallback frame awaits settles
\* the promise that the frame was entered for.
C34_FallbackSettlesOriginal ==
  [][ ( /\ PubEngineStart
        /\ utter[Head(synth.queue)].awaiter # NoUtterance
        /\ utter[Head(synth.queue)].awaiter \in DOMAIN utter
        /\ utter[utter[Head(synth.queue)].awaiter].promise = "pending" ) =>
        utter'[utter[Head(synth.queue)].awaiter].promise = "resolved"
    ]_vars

\* C33: a speak() call that waits on the interaction modal goes on waiting
\* for the click when a second speak() is made while the modal is open: the
\* modal of the earlier call, which holds its callback, stays in the page.
C33_WaitingCallsKeepTheirModal ==
  [][ \A text \in PubTexts, k \in CancelNotify :
        ( /\ PubSpeak(text, k)
          /\ pub.isInitialized /\ pub.userInteractionRequired
          /\ page.modal # <<>>
          /\ text # page.modal[1] ) =>
          \E i \in DOMAIN page'.modal : page'.modal[i] = page.modal[1]
    ]_vars

-----------------------------------------------------------------------------
(* Properties of pause() and resume() *)

\* C36: if pause() is called mid-utterance and resume() is called then,
\* onWordStart events go on for the remaining words: after the resume() of a
\* paused utterance that has words left to report, the word timer is armed.
C36_ResumeContinuesWords ==
  [][ ( /\ UResume
        /\ tts.isPaused
        /\ tts.onWordStart # NoCallback
        /\ tts.currentWordIndex < Len(tts.currentWords) ) =>
        /\ tts'.wordTimer # NoTimer
        /\ tts'.wordTimer \in timers'
    ]_vars

-----------------------------------------------------------------------------
(* Properties of the clamping managers *)

\* C40: a caller-supplied rate, pitch or volume that lies inside the valid
\* range, the boundary values volume 0 and pitch 0 included, is the value the
\* utterance gets.
C40_InRangeValueUnchanged ==
  calc.fn = "clampParameters" =>
    /\ Within(calc.options.rate, 10, 1000) =>
         calc.out.rate = calc.options.rate
    /\ Within(calc.options.pitch, 0, 200) =>
         calc.out.pitch = calc.options.pitch
    /\ Within(calc.options.volume, 0, 100) =>
         calc.out.volume = calc.options.volume

-----------------------------------------------------------------------------
(* Properties of the provider list *)

\* C35: after any number of initialize() calls on one instance of
\* CloudTtsManager (components) or TtsManager (unnamed/part_002) the providers
\* list holds each registered provider exactly once, in the priority order.
C35_ProvidersRegisteredOnce ==
  (mgr.class \in {"CloudTtsManager", "TtsManager"} /\ run.n >= 1) =>
    mgr.providers = Registered(mgr.class)

-----------------------------------------------------------------------------
(* Properties of the start timers of SimpleTtsManager *)

\* C31: when a start timer (the fallback timer of 500 ms or the start timeout
\* of 1000 ms) of an utterance runs after the end or error event of that
\* utterance was handled, isPlaying keeps its value and no onStatusChange is
\* emitted
C31_NoTimerAfterEndOrError ==
  [][\A u \in 1..MaxCalls :
       ((SimpleFallbackTimer(u) \/ SimpleStartTimeout(u))
          /\ utter[u].state \in {"ended", "errored"})
       => (sm'.isPlaying = sm.isPlaying /\ obs'.emitted = <<>>)]_vars

\* C37: in UniversalTTSManager and in SimpleTtsManager isPaused implies
\* isPlaying in every reachable state
C37_PausedImpliesPlaying ==
  (tts.isPaused => tts.isPlaying) /\ (sm.isPaused => sm.isPlaying)

\* C37: a SimpleTtsManager is paused while it plays an utterance that a start
\* timer, not the engine, marked as started
C37_Witness ==
  /\ sm.isPaused
  /\ sm.isPlaying
  /\ \E u \in DOMAIN utter : utter[u].state = "queued" /\ utter[u].hasStarted

-----------------------------------------------------------------------------
(* Properties of the initialization of TtsManager (unnamed/part_006) *)

\* C32: when the timeout of testBasicSpeech() runs after initialize() has
\* resolved, every utterance that a speak() made after initialize() resolved
\* handed to the engine is still in the engine's queue afterwards
C32_TestTimerCancelsNoUserUtterance ==
  [][\A k \in CancelNotify :
       (EnhancedTestTimeout(k) /\ enh.pc = "ready")
       => \A u \in Range(synth.queue) :
            utter[u].afterInit => u \in Range(synth'.queue)]_vars

-----------------------------------------------------------------------------
(* Properties of the initialization of the PDF viewer *)

\* C39: per page load at most one run of initializePdfViewer is in progress
\* or completed, and setupEventListeners has been executed at most once
C39_OneInitialization ==
  /\ Cardinality({i \in DOMAIN pv.runs :
                    InProgress(pv.runs[i]) \/ pv.runs[i] = "done"}) <= 1
  /\ pv.listeners <= 1

====
